---- MODULE Spec2Model ----
(***************************************************************************)
(* The rnix expression parser (src/parser/mod.rs) as a state machine.      *)
(*                                                                         *)
(* The recursive descent is made explicit: `stack` holds one frame per     *)
(* active call of a parse_* method, the frame's pc names the place in the  *)
(* method where control is, and `ret` is the value the last finished call  *)
(* returned.  One action runs a method from one such place to its next     *)
(* call or to its return.  Parser::peek, Parser::next, Parser::expect and  *)
(* Parser::insert are operators on the parser state used inside actions.   *)
(***************************************************************************)
EXTENDS Integers, Sequences, FiniteSets, TLC

VARIABLES input, parsers, arena, stack, ret, result, consumed

vars == <<input, parsers, arena, stack, ret, result, consumed>>

(***************************************************************************)
(* Option<T>: None is the empty sequence, Some(x) the one-element one.     *)
(***************************************************************************)
None == <<>>
Some(x) == <<x>>
IsSome(o) == o # <<>>
Unwrap(o) == o[1]

(***************************************************************************)
(* Bounds of the input pool.                                               *)
(***************************************************************************)
\* longest chain of binary operators `x op y op z ...` in the pool
MaxOps == 2
\* longest juxtaposition of atoms `f x y ...` and of list elements
MaxArgs == 3

(***************************************************************************)
(* Tokens.  A raw token is a token before the tokenizer gave it a Meta.    *)
(***************************************************************************)
T(k) == [kind |-> k]
Id(n) == [kind |-> "Ident", name |-> n]
Val(v) == [kind |-> "Value", value |-> v]
Dyn(sub) == [kind |-> "Dynamic", sub |-> sub]
Lit(text) == [lit |-> TRUE, text |-> text]
Toks(sub) == [lit |-> FALSE, sub |-> sub]
Interp(parts) == [kind |-> "Interpol", multiline |-> FALSE, parts |-> parts]

OR == "or"

Span(s, e) == [start |-> s, end |-> e]
\* Span::until: from self.start to other.end
Until(a, b) == Span(a.start, b.end)

Meta(s, e) == [span |-> Span(s, e), leading |-> 0, trailing |-> 1]

(***************************************************************************)
(* The tokenizer's output for a raw token sequence: every token gets the   *)
(* Meta of its source extent, left to right.  A Dynamic or Interpol token  *)
(* spans its opening delimiter, its nested tokens and its closing          *)
(* delimiter; the nested tokens and the close Meta lie inside it.          *)
(***************************************************************************)
RECURSIVE Width(_), WidthSeq(_), WidthParts(_)
Width(r) ==
    CASE r.kind = "Dynamic" -> 2 + WidthSeq(r.sub)
      [] r.kind = "Interpol" -> 2 + WidthParts(r.parts)
      [] OTHER -> 1
WidthSeq(rs) == IF rs = <<>> THEN 0 ELSE Width(Head(rs)) + WidthSeq(Tail(rs))
WidthParts(ps) ==
    IF ps = <<>> THEN 0
    ELSE (IF Head(ps).lit THEN 1 ELSE 2 + WidthSeq(Head(ps).sub)) + WidthParts(Tail(ps))

RECURSIVE Stamp(_, _), StampSeq(_, _), StampParts(_, _)
Stamp(r, p) ==
    LET w == Width(r) IN
    CASE r.kind = "Dynamic" ->
            [meta |-> Meta(p, p + w),
             tok |-> [kind |-> "Dynamic", values |-> StampSeq(r.sub, p + 1),
                      close |-> Meta(p + w - 1, p + w)]]
      [] r.kind = "Interpol" ->
            [meta |-> Meta(p, p + w),
             tok |-> [kind |-> "Interpol", multiline |-> r.multiline,
                      parts |-> StampParts(r.parts, p + 1)]]
      [] OTHER -> [meta |-> Meta(p, p + 1), tok |-> r]
StampSeq(rs, p) ==
    IF rs = <<>> THEN <<>>
    ELSE <<Stamp(Head(rs), p)>> \o StampSeq(Tail(rs), p + Width(Head(rs)))
StampParts(ps, p) ==
    IF ps = <<>> THEN <<>>
    ELSE LET h == Head(ps) IN
         IF h.lit THEN <<h>> \o StampParts(Tail(ps), p + 1)
         ELSE LET w == 2 + WidthSeq(h.sub) IN
              <<[lit |-> FALSE, tokens |-> StampSeq(h.sub, p + 1),
                 close |-> Meta(p + w - 1, p + w)]>>
              \o StampParts(Tail(ps), p + w)

Tokenize(rs) == StampSeq(rs, 0)

(***************************************************************************)
(* Results.  ParseError keeps its payload: the expected token or category  *)
(* and the actual token (an Option for Expected).                          *)
(***************************************************************************)
Ok(v) == [ok |-> TRUE, val |-> v]
Err(span, e) == [ok |-> FALSE, span |-> span, err |-> e]
Void == Ok([ty |-> [type |-> "Void"]])

UnexpectedEOF == [kind |-> "UnexpectedEOF", expected |-> "", actual |-> None]
Expected(k, actual) == [kind |-> "Expected", expected |-> k, actual |-> actual]
ExpectedType(what, token) == [kind |-> "ExpectedType", expected |-> what, actual |-> Some(token)]
Unexpected(token) == [kind |-> "Unexpected", expected |-> "", actual |-> Some(token)]
AlreadyBound == [kind |-> "AlreadyBound", expected |-> "", actual |-> None]

(***************************************************************************)
(* AST nodes: ASTNode(Span, ASTType).                                      *)
(***************************************************************************)
ASTNode(span, ty) == [span |-> span, ty |-> ty]
NodeId(n) == n

(***************************************************************************)
(* The parser state an action works on: the parsers (the top-level one     *)
(* and, above it, the sub-parsers of parse_branch; each has its token      *)
(* iterator and its two-slot pushback buffer), the shared arena, and the   *)
(* tokens handed out by next() so far.                                     *)
(***************************************************************************)
M0 == [ps |-> parsers, a |-> arena, c |-> consumed]
Cur(m) == m.ps[Len(m.ps)]
SetCur(m, p) == [m EXCEPT !.ps[Len(m.ps)] = p]

\* Parser::with_arena: a fresh buffer over the given tokens
with_arena(tokens) == [toks |-> tokens, pos |-> 1, buffer |-> <<>>]

\* Stack::peek / Stack::pop / Stack::push on the two-slot buffer
StackTop(b) == b[Len(b)]
StackPop(b) == SubSeq(b, 1, Len(b) - 1)
StackPush(b, item) == Append(b, item)

\* a peek_meta that reads from the iterator whether or not the buffer is empty
peek_meta_eager(m) ==
    LET p == Cur(m) IN
    IF p.pos <= Len(p.toks)
    THEN SetCur(m, [p EXCEPT !.buffer = Append(@, p.toks[p.pos]), !.pos = @ + 1])
    ELSE m

\* Parser::peek_meta: fill the empty buffer from the iterator (at the end of
\* the iterator the slot stays empty), then look at the top of the buffer
peek_meta(m) ==
    LET p == Cur(m) IN
    IF p.buffer = <<>> /\ p.pos <= Len(p.toks)
    THEN SetCur(m, [p EXCEPT !.buffer = <<p.toks[p.pos]>>, !.pos = @ + 1])
    ELSE m
PeekItem(m) ==
    LET b == Cur(peek_meta(m)).buffer IN
    IF b = <<>> THEN None ELSE Some(StackTop(b))
\* Parser::peek, as the kind of the token seen ("EOF" for None)
peek(m) == IF PeekItem(m) = None THEN "EOF" ELSE Unwrap(PeekItem(m)).tok.kind
PeekTok(m) == Unwrap(PeekItem(m)).tok

\* Parser::next: the buffer's top if any, else the iterator's next item
HasNext(m) == LET p == Cur(m) IN p.buffer # <<>> \/ p.pos <= Len(p.toks)
NextItem(m) ==
    LET p == Cur(m) IN
    IF p.buffer # <<>> THEN StackTop(p.buffer) ELSE p.toks[p.pos]
next(m) ==
    LET p == Cur(m) IN
    [SetCur(m, IF p.buffer # <<>>
               THEN [p EXCEPT !.buffer = StackPop(@)]
               ELSE [p EXCEPT !.pos = @ + 1])
     EXCEPT !.c = Append(@, NextItem(m))]

\* `self.buffer.push(temporary)`: the token taken by the last next() goes
\* back in front of the stream, so it no longer counts as handed out
push(m, item) ==
    [SetCur(m, [Cur(m) EXCEPT !.buffer = StackPush(@, item)])
     EXCEPT !.c = SubSeq(@, 1, Len(@) - 1)]

\* Parser::insert: append to the arena; the new node's id is its index
NewId(m) == NodeId(Len(m.a))
\* an insert that puts the node in front of the arena
insert_front(m, node) == [m EXCEPT !.a = <<node>> \o @]
insert(m, node) == [m EXCEPT !.a = Append(@, node)]

\* Parser::expect: consumes one token whatever it is
ExpectOk(m, k) == HasNext(m) /\ NextItem(m).tok.kind = k
\* an expect whose error never carries a span
ExpectNoSpan(m) == None
ExpectSpan(m) == IF HasNext(m) THEN Some(NextItem(m).meta.span) ELSE None
ExpectErr(m, k) ==
    IF HasNext(m) THEN Expected(k, Some(NextItem(m).tok)) ELSE Expected(k, None)
expect(m) == IF HasNext(m) THEN next(m) ELSE m

(***************************************************************************)
(* Control.                                                                *)
(***************************************************************************)
Top == stack[Len(stack)]
Rest == SubSeq(stack, 1, Len(stack) - 1)
Frame(pc) == [pc |-> pc]
At(pc) == result.status = "running" /\ stack # <<>> /\ ret.ok /\ Top.pc = pc

Step(m, newStack, newRet) ==
    /\ parsers' = m.ps
    /\ arena' = m.a
    /\ consumed' = m.c
    /\ stack' = newStack
    /\ ret' = newRet
    /\ UNCHANGED <<input, result>>

\* the running method returns Ok(v) to its caller
Return(m, v) == Step(m, Rest, Ok(v))
\* the running method returns Err((span, e))
Raise(m, span, e) == Step(m, Rest, Err(span, e))
\* the running method goes on at another of its places, holding v
Goto(m, frame, v) == Step(m, Append(Rest, frame), Ok(v))
\* the running method calls `callee` and goes on at `cont` when it returns
Call(m, cont, callee) == Step(m, Rest \o <<cont, callee>>, Void)
\* Parser::parse_branch: parse_expr of a new parser over `tokens`, on the same arena
parse_branch(m, cont, tokens) ==
    Step([m EXCEPT !.ps = Append(@, with_arena(tokens))],
         Rest \o <<cont, Frame("parse_branch"), Frame("parse_expr")>>, Void)
\* the failed expect: the token is consumed, the error returned
RaiseExpect(m, k) == Raise(expect(m), ExpectSpan(m), ExpectErr(m, k))

(***************************************************************************)
(* math!: the table of the binary-operator levels.  Each level names the   *)
(* next-tighter method, its operator tokens, and whether it is the         *)
(* only_once arm.                                                          *)
(***************************************************************************)
MathFns == {"parse_isset", "parse_concat", "parse_mul", "parse_add", "parse_merge",
            "parse_compare", "parse_equal", "parse_and", "parse_or",
            "parse_implication"}

MathNext(fn) ==
    CASE fn = "parse_isset" -> "parse_negate"
      [] fn = "parse_concat" -> "parse_isset"
      [] fn = "parse_mul" -> "parse_concat"
      [] fn = "parse_add" -> "parse_mul"
      [] fn = "parse_merge" -> "parse_invert"
      [] fn = "parse_compare" -> "parse_merge"
      [] fn = "parse_equal" -> "parse_compare"
      [] fn = "parse_and" -> "parse_equal"
      [] fn = "parse_or" -> "parse_and"
      [] fn = "parse_implication" -> "parse_or"

\* a ladder whose additive and multiplicative levels have traded their tokens
MathOpsTraded(fn) ==
    CASE fn = "parse_isset" -> [k \in {"Question"} |-> "IsSet"]
      [] fn = "parse_concat" -> [k \in {"Concat"} |-> "Concat"]
      [] fn = "parse_mul" -> [k \in {"Add", "Sub"} |-> k]
      [] fn = "parse_add" -> [k \in {"Mul", "Div"} |-> k]
      [] fn = "parse_merge" -> [k \in {"Merge"} |-> "Merge"]
      [] fn = "parse_compare" -> [k \in {"Less", "LessOrEq", "More", "MoreOrEq"} |-> k]
      [] fn = "parse_equal" -> [k \in {"Equal", "NotEqual"} |-> k]
      [] fn = "parse_and" -> [k \in {"And"} |-> "And"]
      [] fn = "parse_or" -> [k \in {"Or"} |-> "Or"]
      [] fn = "parse_implication" -> [k \in {"Implication"} |-> "Implication"]

\* the operator tokens of a level: token kind :> Operator
MathOps(fn) ==
    CASE fn = "parse_isset" -> [k \in {"Question"} |-> "IsSet"]
      [] fn = "parse_concat" -> [k \in {"Concat"} |-> "Concat"]
      [] fn = "parse_mul" -> [k \in {"Mul", "Div"} |-> k]
      [] fn = "parse_add" -> [k \in {"Add", "Sub"} |-> k]
      [] fn = "parse_merge" -> [k \in {"Merge"} |-> "Merge"]
      [] fn = "parse_compare" -> [k \in {"Less", "LessOrEq", "More", "MoreOrEq"} |-> k]
      [] fn = "parse_equal" -> [k \in {"Equal", "NotEqual"} |-> k]
      [] fn = "parse_and" -> [k \in {"And"} |-> "And"]
      [] fn = "parse_or" -> [k \in {"Or"} |-> "Or"]
      [] fn = "parse_implication" -> [k \in {"Implication"} |-> "Implication"]

\* every level built with the only_once arm, and none of them
always_once(fn) == TRUE
never_once(fn) == FALSE
\* the levels built with the only_once arm of math!
only_once(fn) == fn \in {"parse_compare", "parse_equal"}

\* Parser::parse_math: "always point this to the lowest-level math function"
parse_math == "parse_implication"

\* the span and the type of the node `LHS op RHS`
\* an Operation whose operand ids have traded places
OperationCrossed(val, id1, meta, op, expr, id2) ==
    ASTNode(Until(val.span, expr.span),
            [type |-> "Operation", lhs |-> id2, meta |-> meta, op |-> op, rhs |-> id1])

Operation(val, id1, meta, op, expr, id2) ==
    ASTNode(Until(val.span, expr.span),
            [type |-> "Operation", lhs |-> id1, meta |-> meta, op |-> op, rhs |-> id2])

\* the frame of a call of parse_set(until)
parse_set_frame(until) == [pc |-> "parse_set", until |-> until, values |-> <<>>]
\* the frame of a call of parse_pattern(open, bind)
parse_pattern_frame(open, bind) ==
    [pc |-> "parse_pattern", open |-> open, bind |-> bind,
     start |-> IF IsSome(bind) THEN Unwrap(bind).span ELSE open.span,
     args |-> <<>>, ellipsis |-> None]

(***************************************************************************)
(* parse: Parser::new, parse_expr, and the AST of the arena and the root.  *)
(***************************************************************************)
parse ==
    /\ At("parse")
    /\ Step([ps |-> <<with_arena(input)>>, a |-> <<>>, c |-> <<>>],
            <<Frame("parse_ret"), Frame("parse_expr")>>, Void)

parse_ret ==
    /\ result.status = "running"
    /\ stack # <<>> /\ Top.pc = "parse_ret"
    /\ result' = IF ret.ok
                 THEN [status |-> "ok", root |-> ret.val, arena |-> arena]
                 ELSE [status |-> "err", span |-> ret.span, err |-> ret.err]
    /\ stack' = <<>>
    /\ parsers' = <<>>
    /\ UNCHANGED <<input, arena, ret, consumed>>

\* a caller that drops the callee's error and goes on
propagate_recover ==
    /\ result.status = "running"
    /\ stack # <<>> /\ ~ret.ok
    /\ Top.pc \notin {"parse_ret", "parse_branch"}
    /\ ret' = Void
    /\ UNCHANGED <<input, parsers, arena, stack, result, consumed>>

\* `?`: a method whose callee returned Err returns that Err itself
propagate ==
    /\ result.status = "running"
    /\ stack # <<>> /\ ~ret.ok
    /\ Top.pc \notin {"parse_ret", "parse_branch"}
    /\ stack' = Rest
    /\ UNCHANGED <<input, parsers, arena, ret, result, consumed>>

\* the end of parse_branch: the sub-parser is dropped, its result handed on
parse_branch_ret ==
    /\ result.status = "running"
    /\ stack # <<>> /\ Top.pc = "parse_branch"
    /\ parsers' = SubSeq(parsers, 1, Len(parsers) - 1)
    /\ stack' = Rest
    /\ UNCHANGED <<input, arena, ret, result, consumed>>

(***************************************************************************)
(* Parser::parse_expr                                                      *)
(***************************************************************************)
\* a parse_expr that knows only the `let .. in` form of let
parse_expr_let_in ==
    /\ At("parse_expr")
    /\ LET m == peek_meta(M0)
           k == peek(M0)
           kw == NextItem(m).meta
           m1 == next(m)
       IN CASE k = "Let" ->
                 Call(peek_meta(m1), [pc |-> "expr_let_in", let_ |-> kw],
                      parse_set_frame("In"))
            [] k = "With" ->
                 Call(m1, [pc |-> "expr_with", with_ |-> kw], Frame("parse_expr"))
            [] k = "If" ->
                 Call(m1, [pc |-> "expr_if", if_meta |-> kw], Frame("parse_expr"))
            [] k = "Assert" ->
                 Call(m1, [pc |-> "expr_assert", assert_ |-> kw], Frame("parse_expr"))
            [] OTHER ->
                 Call(m, Frame("expr_math"), Frame(parse_math))

parse_expr ==
    /\ At("parse_expr")
    /\ LET m == peek_meta(M0)
           k == peek(M0)
           kw == NextItem(m).meta
           m1 == next(m)
       IN CASE k = "Let" ->
                 LET m2 == peek_meta(m1) IN
                 IF peek(m1) = "CurlyBOpen"
                 THEN Call(next(m2),
                           [pc |-> "expr_let", let_ |-> kw, open |-> NextItem(m2).meta],
                           parse_set_frame("CurlyBClose"))
                 ELSE Call(m2, [pc |-> "expr_let_in", let_ |-> kw], parse_set_frame("In"))
            [] k = "With" ->
                 Call(m1, [pc |-> "expr_with", with_ |-> kw], Frame("parse_expr"))
            [] k = "If" ->
                 Call(m1, [pc |-> "expr_if", if_meta |-> kw], Frame("parse_expr"))
            [] k = "Assert" ->
                 Call(m1, [pc |-> "expr_assert", assert_ |-> kw], Frame("parse_expr"))
            [] OTHER ->
                 Call(m, Frame("expr_math"), Frame(parse_math))

\* let { ... }: the set body has been parsed up to its `}`
expr_let ==
    /\ At("expr_let")
    /\ LET f == Top
           close == ret.val.end
       IN Return(M0, ASTNode(Until(f.let_.span, close.span),
                             [type |-> "Let", let_ |-> f.let_, open |-> f.open,
                              values |-> ret.val.values, close |-> close]))

\* let ... in: the entries have been parsed up to `in`
expr_let_in ==
    /\ At("expr_let_in")
    /\ Call(M0, [pc |-> "expr_let_in_body", let_ |-> Top.let_, in_ |-> ret.val.end,
                 vars |-> ret.val.values],
            Frame("parse_expr"))

expr_let_in_body ==
    /\ At("expr_let_in_body")
    /\ LET f == Top
           expr == ret.val
       IN Return(insert(M0, expr),
                 ASTNode(Until(f.let_.span, expr.span),
                         [type |-> "LetIn", let_ |-> f.let_, vars |-> f.vars,
                          in_ |-> f.in_, body |-> NewId(M0)]))

\* with vars ; rest
expr_with ==
    /\ At("expr_with")
    /\ IF ExpectOk(M0, "Semicolon")
       THEN Call(next(M0), [pc |-> "expr_with_rest", with_ |-> Top.with_, vars |-> ret.val,
                            semi |-> NextItem(M0).meta],
                 Frame("parse_expr"))
       ELSE RaiseExpect(M0, "Semicolon")

expr_with_rest ==
    /\ At("expr_with_rest")
    /\ LET f == Top
           rest == ret.val
           m1 == insert(M0, f.vars)
           m2 == insert(m1, rest)
       IN Return(m2, ASTNode(Until(f.with_.span, rest.span),
                             [type |-> "With", with_ |-> f.with_, vars |-> NewId(M0),
                              semi |-> f.semi, rest |-> NewId(m1)]))

\* if condition then body else otherwise
expr_if ==
    /\ At("expr_if")
    /\ IF ExpectOk(M0, "Then")
       THEN Call(next(M0), [pc |-> "expr_if_then", if_meta |-> Top.if_meta,
                            condition |-> ret.val, then_meta |-> NextItem(M0).meta],
                 Frame("parse_expr"))
       ELSE RaiseExpect(M0, "Then")

expr_if_then ==
    /\ At("expr_if_then")
    /\ IF ExpectOk(M0, "Else")
       THEN Call(next(M0), [pc |-> "expr_if_else", if_meta |-> Top.if_meta,
                            condition |-> Top.condition, then_meta |-> Top.then_meta,
                            body |-> ret.val, else_meta |-> NextItem(M0).meta],
                 Frame("parse_expr"))
       ELSE RaiseExpect(M0, "Else")

expr_if_else ==
    /\ At("expr_if_else")
    /\ LET f == Top
           otherwise == ret.val
           m1 == insert(M0, f.condition)
           m2 == insert(m1, f.body)
           m3 == insert(m2, otherwise)
       IN Return(m3, ASTNode(Until(f.if_meta.span, otherwise.span),
                             [type |-> "IfElse", if_meta |-> f.if_meta,
                              condition |-> NewId(M0), then_meta |-> f.then_meta,
                              then_body |-> NewId(m1), else_meta |-> f.else_meta,
                              else_body |-> NewId(m2)]))

\* assert condition ; rest
expr_assert ==
    /\ At("expr_assert")
    /\ IF ExpectOk(M0, "Semicolon")
       THEN Call(next(M0), [pc |-> "expr_assert_rest", assert_ |-> Top.assert_,
                            condition |-> ret.val, semi |-> NextItem(M0).meta],
                 Frame("parse_expr"))
       ELSE RaiseExpect(M0, "Semicolon")

expr_assert_rest ==
    /\ At("expr_assert_rest")
    /\ LET f == Top
           rest == ret.val
           m1 == insert(M0, f.condition)
           m2 == insert(m1, rest)
       IN Return(m2, ASTNode(Until(f.assert_.span, rest.span),
                             [type |-> "Assert", assert_ |-> f.assert_,
                              condition |-> NewId(M0), semi |-> f.semi,
                              rest |-> NewId(m1)]))

\* the fall-through branch: a Var followed by `:` starts a lambda
\* a bare lambda whose body is only an operator expression
expr_math_flat ==
    /\ At("expr_math")
    /\ LET ast == ret.val
           m == peek_meta(M0)
       IN IF ast.ty.type = "Var"
          THEN IF peek(M0) = "Colon"
               THEN Call(next(m), [pc |-> "expr_lambda", start |-> ast.span,
                                   meta |-> ast.ty.meta, name |-> ast.ty.name,
                                   colon |-> NextItem(m).meta],
                         Frame(parse_math))
               ELSE Return(m, ASTNode(ast.span, [type |-> "Var", meta |-> ast.ty.meta,
                                                 name |-> ast.ty.name]))
          ELSE Return(M0, ast)

expr_math ==
    /\ At("expr_math")
    /\ LET ast == ret.val
           m == peek_meta(M0)
       IN IF ast.ty.type = "Var"
          THEN IF peek(M0) = "Colon"
               THEN Call(next(m), [pc |-> "expr_lambda", start |-> ast.span,
                                   meta |-> ast.ty.meta, name |-> ast.ty.name,
                                   colon |-> NextItem(m).meta],
                         Frame("parse_expr"))
               ELSE Return(m, ASTNode(ast.span, [type |-> "Var", meta |-> ast.ty.meta,
                                                 name |-> ast.ty.name]))
          ELSE Return(M0, ast)

expr_lambda ==
    /\ At("expr_lambda")
    /\ LET f == Top
           expr == ret.val
       IN Return(insert(M0, expr),
                 ASTNode(Until(f.start, expr.span),
                         [type |-> "Lambda",
                          arg |-> [kind |-> "Ident", meta |-> f.meta, name |-> f.name],
                          colon |-> f.colon, body |-> NewId(M0)]))

(***************************************************************************)
(* math!: one binary-operator level.  `fn` is the method the macro was     *)
(* expanded in.                                                            *)
(***************************************************************************)
\* let val = { $next };
math_start ==
    /\ result.status = "running" /\ stack # <<>> /\ ret.ok
    /\ Top.pc \in MathFns
    /\ Call(M0, [pc |-> "math_peek", fn |-> Top.pc], Frame(MathNext(Top.pc)))

\* a level that leaves its operator in the stream
math_peek_keeping ==
    /\ At("math_peek")
    /\ LET fn == Top.fn
           val == ret.val
           m == peek_meta(M0)
           k == peek(M0)
       IN IF k \in DOMAIN MathOps(fn)
          THEN Call(m, [pc |-> "math_expr", fn |-> fn, val |-> val,
                              meta |-> NextItem(m).meta, op |-> MathOps(fn)[k]],
                    Frame(MathNext(fn)))
          ELSE Return(m, val)

\* match $self.peek(): an operator of the level is consumed and the right
\* operand parsed; anything else ends the level with val
math_peek ==
    /\ At("math_peek")
    /\ LET fn == Top.fn
           val == ret.val
           m == peek_meta(M0)
           k == peek(M0)
       IN IF k \in DOMAIN MathOps(fn)
          THEN Call(next(m), [pc |-> "math_expr", fn |-> fn, val |-> val,
                              meta |-> NextItem(m).meta, op |-> MathOps(fn)[k]],
                    Frame(MathNext(fn)))
          ELSE Return(m, val)

\* an Operation whose right operand is stored before its left operand
math_expr_swapped ==
    /\ At("math_expr")
    /\ LET f == Top
           expr == ret.val
           m1 == insert(M0, expr)
           m2 == insert(m1, f.val)
           node == Operation(f.val, NewId(m1), f.meta, f.op, expr, NewId(M0))
       IN IF only_once(f.fn)
          THEN Return(m2, node)
          ELSE Goto(m2, [pc |-> "math_peek", fn |-> f.fn], node)

\* the Operation is built: val is inserted, then expr; the only_once arm
\* returns it, the looping arm goes back to the peek with it as val
math_expr ==
    /\ At("math_expr")
    /\ LET f == Top
           expr == ret.val
           m1 == insert(M0, f.val)
           m2 == insert(m1, expr)
           node == Operation(f.val, NewId(M0), f.meta, f.op, expr, NewId(m1))
       IN IF only_once(f.fn)
          THEN Return(m2, node)
          ELSE Goto(m2, [pc |-> "math_peek", fn |-> f.fn], node)

(***************************************************************************)
(* Parser::parse_negate and Parser::parse_invert                           *)
(***************************************************************************)
UnaryFns == {"parse_negate", "parse_invert"}
UnaryToken(fn) == IF fn = "parse_negate" THEN "Sub" ELSE "Invert"
UnaryOp(fn) == IF fn = "parse_negate" THEN "Negate" ELSE "Invert"
UnaryNext(fn) == IF fn = "parse_negate" THEN "parse_fn" ELSE "parse_add"

unary_start ==
    /\ result.status = "running" /\ stack # <<>> /\ ret.ok
    /\ Top.pc \in UnaryFns
    /\ LET fn == Top.pc
           m == peek_meta(M0)
       IN IF peek(M0) = UnaryToken(fn)
          THEN Call(next(m), [pc |-> "unary_expr", meta |-> NextItem(m).meta,
                              op |-> UnaryOp(fn)],
                    Frame(fn))
          ELSE Step(m, Append(Rest, Frame(UnaryNext(fn))), Void)

\* a unary operator that stores its operand twice
unary_expr_twice ==
    /\ At("unary_expr")
    /\ LET f == Top
           expr == ret.val
           m1 == insert(M0, expr)
       IN Return(insert(m1, expr),
                 ASTNode(Until(f.meta.span, expr.span),
                         [type |-> "Unary", meta |-> f.meta, op |-> f.op,
                          operand |-> NewId(m1)]))

unary_expr ==
    /\ At("unary_expr")
    /\ LET f == Top
           expr == ret.val
       IN Return(insert(M0, expr),
                 ASTNode(Until(f.meta.span, expr.span),
                         [type |-> "Unary", meta |-> f.meta, op |-> f.op,
                          operand |-> NewId(M0)]))

(***************************************************************************)
(* Parser::parse_fn                                                        *)
(***************************************************************************)
\* Token::is_fn_arg: the tokens an argument can start with
is_fn_arg(k) ==
    k \in {"Rec", "CurlyBOpen", "SquareBOpen", "ParenOpen", "Ident", "Value", "Interpol"}

parse_fn ==
    /\ At("parse_fn")
    /\ Call(M0, Frame("fn_peek"), Frame("parse_val"))

fn_peek ==
    /\ At("fn_peek")
    /\ LET val == ret.val
           m == peek_meta(M0)
       IN IF is_fn_arg(peek(M0))
          THEN Call(m, [pc |-> "fn_arg", val |-> val], Frame("parse_val"))
          ELSE Return(m, val)

fn_arg ==
    /\ At("fn_arg")
    /\ LET f == Top
           arg == ret.val
           m1 == insert(M0, f.val)
           m2 == insert(m1, arg)
       IN Goto(m2, Frame("fn_peek"),
               ASTNode(Until(f.val.span, arg.span),
                       [type |-> "Apply", f |-> NewId(M0), arg |-> NewId(m1)]))

(***************************************************************************)
(* Parser::parse_val                                                       *)
(***************************************************************************)
\* the running method goes on at another of its places
Jump(m, frame) == Step(m, Append(Rest, frame), Void)

\* the lookahead after `{`: (temporary, peek) starts a lambda pattern
\* the lookahead table without its (Ident, `}`) row
IsPatternShort(temporary, peeked) ==
    \/ temporary = "Ident" /\ peeked = "Comma"
    \/ temporary = "Ident" /\ peeked = "Question"
    \/ temporary = "Ellipsis" /\ peeked = "CurlyBClose"
    \/ temporary = "CurlyBClose" /\ peeked = "Colon"
    \/ temporary = "CurlyBClose" /\ peeked = "At"

IsPattern(temporary, peeked) ==
    \/ temporary = "Ident" /\ peeked = "Comma"
    \/ temporary = "Ident" /\ peeked = "Question"
    \/ temporary = "Ellipsis" /\ peeked = "CurlyBClose"
    \/ temporary = "Ident" /\ peeked = "CurlyBClose"
    \/ temporary = "CurlyBClose" /\ peeked = "Colon"
    \/ temporary = "CurlyBClose" /\ peeked = "At"

Var(meta, name) == ASTNode(meta.span, [type |-> "Var", meta |-> meta, name |-> name])
Value(meta, val) == ASTNode(meta.span, [type |-> "Value", meta |-> meta, value |-> val])

\* the span of `val.attr or default` and of `val.attr`
OrDefaultSpan(val, attr, default) == Until(val.span, attr.span)
IndexSetSpan(val, attr) == Until(val.span, attr.span)
\* the span of a Dynamic node
DynamicSpan(meta, close) == meta.span

interpol_frame(meta, tok) ==
    [pc |-> "parse_interpol", meta |-> meta, multiline |-> tok.multiline,
     values |-> tok.parts, parsed |-> <<>>]

\* an import that takes a whole application as its operand
import_application == "parse_fn"
\* Token::Import: the method that parses the operand of `import`
import_operand == "parse_val"

parse_val ==
    /\ At("parse_val")
    /\ IF ~HasNext(M0) THEN Raise(M0, None, UnexpectedEOF)
       ELSE
       LET meta == NextItem(M0).meta
           tok == NextItem(M0).tok
           k == tok.kind
           m1 == next(M0)
       IN CASE k = "ParenOpen" ->
                 Call(m1, [pc |-> "val_paren", open |-> meta], Frame("parse_expr"))
            [] k = "Import" ->
                 Call(m1, [pc |-> "val_import", import_ |-> meta], Frame(import_operand))
            [] k = "Rec" ->
                 IF ExpectOk(m1, "CurlyBOpen")
                 THEN Call(next(m1), [pc |-> "val_set", start |-> meta.span,
                                      recursive |-> Some(meta), open |-> NextItem(m1).meta],
                           parse_set_frame("CurlyBClose"))
                 ELSE RaiseExpect(m1, "CurlyBOpen")
            [] k = "CurlyBOpen" ->
                 IF ~HasNext(m1) THEN Raise(m1, None, UnexpectedEOF)
                 ELSE
                 LET temporary == NextItem(m1)
                     m2 == next(m1)
                     m3 == push(peek_meta(m2), temporary)
                 IN IF IsPattern(temporary.tok.kind, peek(m2))
                    THEN Call(m3, Frame("val_postfix"), parse_pattern_frame(meta, None))
                    ELSE Call(m3, [pc |-> "val_set", start |-> meta.span,
                                   recursive |-> None, open |-> meta],
                              parse_set_frame("CurlyBClose"))
            [] k = "SquareBOpen" ->
                 Jump(m1, [pc |-> "val_list", open |-> meta, values |-> <<>>])
            [] k = "Dynamic" ->
                 parse_branch(m1, [pc |-> "dynamic", meta |-> meta, close |-> tok.close,
                                   then |-> "postfix"],
                              tok.values)
            [] k = "Value" ->
                 Goto(m1, Frame("val_postfix"), Value(meta, tok.value))
            [] k = "Ident" ->
                 LET m2 == peek_meta(m1) IN
                 IF peek(m1) = "At"
                 THEN LET at == NextItem(m2).meta
                          m3 == next(m2)
                      IN IF ExpectOk(m3, "CurlyBOpen")
                         THEN Call(next(m3), Frame("val_postfix"),
                                   parse_pattern_frame(
                                       NextItem(m3).meta,
                                       Some([before |-> TRUE,
                                             span |-> Until(meta.span, at.span),
                                             at |-> at, ident |-> meta,
                                             name |-> tok.name])))
                         ELSE RaiseExpect(m3, "CurlyBOpen")
                 ELSE Goto(m2, Frame("val_postfix"), Var(meta, tok.name))
            [] k = "Interpol" ->
                 Call(m1, [pc |-> "interpol_node", span |-> meta.span, then |-> "postfix"],
                      interpol_frame(meta, tok))
            [] OTHER ->
                 Raise(m1, Some(meta.span), Unexpected(tok))

\* a finished atom either enters the postfix loop of parse_val or is what
\* next_attr returns
Finish(m, then, node) ==
    IF then = "postfix" THEN Goto(m, Frame("val_postfix"), node) ELSE Return(m, node)

val_paren ==
    /\ At("val_paren")
    /\ IF ExpectOk(M0, "ParenClose")
       THEN LET expr == ret.val
                close == NextItem(M0).meta
                m1 == next(M0)
            IN Goto(insert(m1, expr), Frame("val_postfix"),
                    ASTNode(Until(Top.open.span, close.span),
                            [type |-> "Parens", open |-> Top.open, inner |-> NewId(m1),
                             close |-> close]))
       ELSE RaiseExpect(M0, "ParenClose")

val_import ==
    /\ At("val_import")
    /\ LET value == ret.val IN
       Goto(insert(M0, value), Frame("val_postfix"),
            ASTNode(Until(Top.import_.span, value.span),
                    [type |-> "Import", import_ |-> Top.import_, value |-> NewId(M0)]))

\* `{ ... }` and `rec { ... }`: the set body has been parsed up to its `}`
val_set ==
    /\ At("val_set")
    /\ LET close == ret.val.end IN
       Goto(M0, Frame("val_postfix"),
            ASTNode(Until(Top.start, close.span),
                    [type |-> "Set", recursive |-> Top.recursive, open |-> Top.open,
                     values |-> ret.val.values, close |-> close]))

\* `[`: the element loop
\* a list whose elements are whole applications
val_list_applied ==
    /\ At("val_list")
    /\ LET m == peek_meta(M0)
           k == peek(M0)
       IN IF k \in {"EOF", "SquareBClose"}
          THEN IF ExpectOk(m, "SquareBClose")
               THEN LET close == NextItem(m).meta IN
                    Goto(next(m), Frame("val_postfix"),
                         ASTNode(Until(Top.open.span, close.span),
                                 [type |-> "List", open |-> Top.open,
                                  values |-> Top.values, close |-> close]))
               ELSE RaiseExpect(m, "SquareBClose")
          ELSE Call(m, [pc |-> "val_list_val", open |-> Top.open, values |-> Top.values],
                    Frame("parse_fn"))

val_list ==
    /\ At("val_list")
    /\ LET m == peek_meta(M0)
           k == peek(M0)
       IN IF k \in {"EOF", "SquareBClose"}
          THEN IF ExpectOk(m, "SquareBClose")
               THEN LET close == NextItem(m).meta IN
                    Goto(next(m), Frame("val_postfix"),
                         ASTNode(Until(Top.open.span, close.span),
                                 [type |-> "List", open |-> Top.open,
                                  values |-> Top.values, close |-> close]))
               ELSE RaiseExpect(m, "SquareBClose")
          ELSE Call(m, [pc |-> "val_list_val", open |-> Top.open, values |-> Top.values],
                    Frame("parse_val"))

\* a list that keeps only its last element
val_list_val_last ==
    /\ At("val_list_val")
    /\ Jump(insert(M0, ret.val),
            [pc |-> "val_list", open |-> Top.open, values |-> <<NewId(M0)>>])

val_list_val ==
    /\ At("val_list_val")
    /\ Jump(insert(M0, ret.val),
            [pc |-> "val_list", open |-> Top.open,
             values |-> Append(Top.values, NewId(M0))])

\* Token::Dynamic in parse_val and in next_attr: the nested parse is done
\* a Dynamic node that names its expression without storing it in the arena
dynamic_unstored ==
    /\ At("dynamic")
    /\ Finish(M0, Top.then,
              ASTNode(DynamicSpan(Top.meta, Top.close),
                      [type |-> "Dynamic", meta |-> Top.meta, ast |-> NewId(M0),
                       close |-> Top.close]))

dynamic ==
    /\ At("dynamic")
    /\ Finish(insert(M0, ret.val), Top.then,
              ASTNode(DynamicSpan(Top.meta, Top.close),
                      [type |-> "Dynamic", meta |-> Top.meta, ast |-> NewId(M0),
                       close |-> Top.close]))

\* Token::Interpol in parse_val and in next_attr: parse_interpol is done
interpol_node ==
    /\ At("interpol_node")
    /\ Finish(M0, Top.then, ASTNode(Top.span, ret.val))

\* the postfix loop: while self.peek() == Some(&Token::Dot)
val_postfix ==
    /\ At("val_postfix")
    /\ LET val == ret.val
           m == peek_meta(M0)
       IN IF peek(M0) = "Dot"
          THEN Call(next(m), [pc |-> "val_attr", val |-> val, dot |-> NextItem(m).meta],
                    Frame("next_attr"))
          ELSE Return(m, val)

\* an `or` whose default is a whole expression
val_attr_greedy ==
    /\ At("val_attr")
    /\ LET f == Top
           attr == ret.val
           m == peek_meta(M0)
           m1 == insert(m, f.val)
           m2 == insert(m1, attr)
       IN IF peek(M0) = "Ident" /\ PeekTok(M0).name = OR
          THEN Call(next(m), [pc |-> "val_default", val |-> f.val, dot |-> f.dot,
                              attr |-> attr, or_ |-> NextItem(m).meta],
                    Frame("parse_expr"))
          ELSE Goto(m2, Frame("val_postfix"),
                    ASTNode(IndexSetSpan(f.val, attr),
                            [type |-> "IndexSet", set |-> NewId(m), dot |-> f.dot,
                             attr |-> NewId(m1)]))

val_attr ==
    /\ At("val_attr")
    /\ LET f == Top
           attr == ret.val
           m == peek_meta(M0)
           m1 == insert(m, f.val)
           m2 == insert(m1, attr)
       IN IF peek(M0) = "Ident" /\ PeekTok(M0).name = OR
          THEN Call(next(m), [pc |-> "val_default", val |-> f.val, dot |-> f.dot,
                              attr |-> attr, or_ |-> NextItem(m).meta],
                    Frame("parse_val"))
          ELSE Goto(m2, Frame("val_postfix"),
                    ASTNode(IndexSetSpan(f.val, attr),
                            [type |-> "IndexSet", set |-> NewId(m), dot |-> f.dot,
                             attr |-> NewId(m1)]))

val_default ==
    /\ At("val_default")
    /\ LET f == Top
           default == ret.val
           m1 == insert(M0, f.val)
           m2 == insert(m1, f.attr)
           m3 == insert(m2, default)
       IN Goto(m3, Frame("val_postfix"),
               ASTNode(OrDefaultSpan(f.val, f.attr, default),
                       [type |-> "OrDefault", set |-> NewId(M0), dot |-> f.dot,
                        attr |-> NewId(m1), or_ |-> f.or_, default |-> NewId(m2)]))

(***************************************************************************)
(* Parser::parse_interpol                                                  *)
(***************************************************************************)
parse_interpol ==
    /\ At("parse_interpol")
    /\ LET f == Top IN
       IF f.values = <<>>
       THEN Return(M0, [type |-> "Interpol", meta |-> f.meta, multiline |-> f.multiline,
                        parts |-> f.parsed])
       ELSE LET value == Head(f.values) IN
            IF value.lit
            THEN Jump(M0, [f EXCEPT !.values = Tail(@),
                                    !.parsed = Append(@, [lit |-> TRUE, text |-> value.text])])
            ELSE parse_branch(M0, [pc |-> "interpol_ast", meta |-> f.meta,
                                   multiline |-> f.multiline, values |-> Tail(f.values),
                                   parsed |-> f.parsed, close |-> value.close],
                              value.tokens)

interpol_ast ==
    /\ At("interpol_ast")
    /\ LET f == Top IN
       Jump(insert(M0, ret.val),
            [pc |-> "parse_interpol", meta |-> f.meta, multiline |-> f.multiline,
             values |-> f.values,
             parsed |-> Append(f.parsed, [lit |-> FALSE, ast |-> NewId(M0),
                                          close |-> f.close])])

(***************************************************************************)
(* Parser::next_attr, Parser::parse_attr, Parser::next_ident               *)
(***************************************************************************)
next_attr ==
    /\ At("next_attr")
    /\ IF ~HasNext(M0) THEN Raise(M0, None, UnexpectedEOF)
       ELSE
       LET meta == NextItem(M0).meta
           tok == NextItem(M0).tok
           k == tok.kind
           m1 == next(M0)
       IN CASE k = "Ident" -> Return(m1, Var(meta, tok.name))
            [] k = "Value" -> Return(m1, Value(meta, tok.value))
            [] k = "Dynamic" ->
                 parse_branch(m1, [pc |-> "dynamic", meta |-> meta, close |-> tok.close,
                                   then |-> "return"],
                              tok.values)
            [] k = "Interpol" ->
                 Call(m1, [pc |-> "interpol_node", span |-> meta.span, then |-> "return"],
                      interpol_frame(meta, tok))
            [] OTHER ->
                 Raise(m1, Some(meta.span), ExpectedType("attribute", tok))

parse_attr_frame == [pc |-> "parse_attr", path |-> <<>>]

parse_attr ==
    /\ At("parse_attr")
    /\ Call(M0, [pc |-> "attr_peek", path |-> Top.path], Frame("next_attr"))

attr_peek ==
    /\ At("attr_peek")
    /\ LET m1 == insert(M0, ret.val)
           attr == NewId(M0)
           m2 == peek_meta(m1)
       IN IF peek(m1) = "Dot"
          THEN Jump(next(m2),
                    [pc |-> "parse_attr",
                     path |-> Append(Top.path, [id |-> attr,
                                                dot |-> Some(NextItem(m2).meta)])])
          ELSE Return(m2, [path |-> Append(Top.path, [id |-> attr, dot |-> None])])

\* next_ident: what it returns or raises, on a state where it is called
NextIdentOk(m) == HasNext(m) /\ NextItem(m).tok.kind = "Ident"
RaiseNextIdent(m) ==
    IF HasNext(m)
    THEN Raise(next(m), Some(NextItem(m).meta.span), ExpectedType("ident", NextItem(m).tok))
    ELSE Raise(m, None, UnexpectedEOF)

(***************************************************************************)
(* Parser::parse_pattern                                                   *)
(***************************************************************************)
PatFrame(f, pc, args, ellipsis, bind) ==
    [pc |-> pc, open |-> f.open, bind |-> bind, start |-> f.start,
     args |-> args, ellipsis |-> ellipsis]

\* a pattern entry that forgets its comma
PatEntryBare(ident, name, default, comma) ==
    [ident |-> ident, name |-> name, default |-> default, comma |-> None]

PatEntry(ident, name, default, comma) ==
    [ident |-> ident, name |-> name, default |-> default, comma |-> comma]

\* the head of the entry loop
parse_pattern ==
    /\ At("parse_pattern")
    /\ LET f == Top
           m == peek_meta(M0)
           k == peek(M0)
       IN CASE k = "Ellipsis" ->
                 Jump(next(m), PatFrame(f, "pat_close", f.args,
                                        Some(NextItem(m).meta), f.bind))
            [] k = "CurlyBClose" ->
                 Jump(m, PatFrame(f, "pat_close", f.args, f.ellipsis, f.bind))
            [] OTHER ->
                 IF ~NextIdentOk(m) THEN RaiseNextIdent(m)
                 ELSE
                 LET ident == NextItem(m).meta
                     name == NextItem(m).tok.name
                     m1 == next(m)
                     m2 == peek_meta(m1)
                     entry == [pc |-> "pat_comma", open |-> f.open, bind |-> f.bind,
                               start |-> f.start, args |-> f.args,
                               ellipsis |-> f.ellipsis, ident |-> ident, name |-> name,
                               question |-> None, default |-> None]
                 IN IF peek(m1) = "Question"
                    THEN Call(next(m2),
                              [entry EXCEPT !.pc = "pat_default",
                                            !.question = Some(NextItem(m2).meta)],
                              Frame("parse_expr"))
                    ELSE Jump(m2, entry)

\* `? default`: the default expression has been parsed
pat_default ==
    /\ At("pat_default")
    /\ LET f == Top IN
       Jump(insert(M0, ret.val),
            [f EXCEPT !.pc = "pat_comma",
                      !.default = Some([question |-> Unwrap(f.question),
                                        expr |-> NewId(M0)])])

\* an entry loop that goes on after an entry without a comma
pat_comma_lenient ==
    /\ At("pat_comma")
    /\ LET f == Top
           m == peek_meta(M0)
       IN IF peek(M0) = "Comma"
          THEN Jump(next(m),
                    PatFrame(f, "parse_pattern",
                             Append(f.args, PatEntry(f.ident, f.name, f.default,
                                                     Some(NextItem(m).meta))),
                             f.ellipsis, f.bind))
          ELSE Jump(m,
                    PatFrame(f, "parse_pattern",
                             Append(f.args, PatEntry(f.ident, f.name, f.default, None)),
                             f.ellipsis, f.bind))

\* the comma after an entry: with it the loop goes on, without it it ends
pat_comma ==
    /\ At("pat_comma")
    /\ LET f == Top
           m == peek_meta(M0)
       IN IF peek(M0) = "Comma"
          THEN Jump(next(m),
                    PatFrame(f, "parse_pattern",
                             Append(f.args, PatEntry(f.ident, f.name, f.default,
                                                     Some(NextItem(m).meta))),
                             f.ellipsis, f.bind))
          ELSE Jump(m,
                    PatFrame(f, "pat_close",
                             Append(f.args, PatEntry(f.ident, f.name, f.default, None)),
                             f.ellipsis, f.bind))

\* a close that lets a trailing `@ name` replace the leading bind
pat_close_rebind ==
    /\ At("pat_close")
    /\ IF ~ExpectOk(M0, "CurlyBClose") THEN RaiseExpect(M0, "CurlyBClose")
       ELSE
       LET f == Top
           close == NextItem(M0).meta
           m1 == next(M0)
           m2 == peek_meta(m1)
           at == NextItem(m2).meta
           m3 == next(m2)
           done == [pc |-> "pat_colon", open |-> f.open, bind |-> f.bind,
                    start |-> f.start, args |-> f.args, ellipsis |-> f.ellipsis,
                    close |-> close]
       IN IF peek(m1) = "At"
          THEN IF ~NextIdentOk(m3) THEN RaiseNextIdent(m3)
               ELSE Jump(next(m3),
                         [done EXCEPT !.bind =
                             Some([before |-> FALSE,
                                   span |-> Until(at.span, NextItem(m3).meta.span),
                                   at |-> at, ident |-> NextItem(m3).meta,
                                   name |-> NextItem(m3).tok.name])])
          ELSE Jump(m2, done)

\* after the loop: `}`, then an optional `@ name`
pat_close ==
    /\ At("pat_close")
    /\ IF ~ExpectOk(M0, "CurlyBClose") THEN RaiseExpect(M0, "CurlyBClose")
       ELSE
       LET f == Top
           close == NextItem(M0).meta
           m1 == next(M0)
           m2 == peek_meta(m1)
           at == NextItem(m2).meta
           m3 == next(m2)
           done == [pc |-> "pat_colon", open |-> f.open, bind |-> f.bind,
                    start |-> f.start, args |-> f.args, ellipsis |-> f.ellipsis,
                    close |-> close]
       IN IF peek(m1) = "At"
          THEN IF IsSome(f.bind) THEN Raise(m3, Some(at.span), AlreadyBound)
               ELSE IF ~NextIdentOk(m3) THEN RaiseNextIdent(m3)
               ELSE Jump(next(m3),
                         [done EXCEPT !.bind =
                             Some([before |-> FALSE,
                                   span |-> Until(at.span, NextItem(m3).meta.span),
                                   at |-> at, ident |-> NextItem(m3).meta,
                                   name |-> NextItem(m3).tok.name])])
          ELSE Jump(m2, done)

\* `:` and the body
pat_colon ==
    /\ At("pat_colon")
    /\ IF ExpectOk(M0, "Colon")
       THEN LET f == Top IN
            Call(next(M0),
                 [pc |-> "pat_expr", open |-> f.open, bind |-> f.bind, start |-> f.start,
                  args |-> f.args, ellipsis |-> f.ellipsis, close |-> f.close,
                  colon |-> NextItem(M0).meta],
                 Frame("parse_expr"))
       ELSE RaiseExpect(M0, "Colon")

pat_expr ==
    /\ At("pat_expr")
    /\ LET f == Top
           expr == ret.val
       IN Return(insert(M0, expr),
                 ASTNode(Until(f.start, expr.span),
                         [type |-> "Lambda",
                          arg |-> [kind |-> "Pattern", open |-> f.open, args |-> f.args,
                                   close |-> f.close, bind |-> f.bind,
                                   ellipsis |-> f.ellipsis],
                          colon |-> f.colon, body |-> NewId(M0)]))

(***************************************************************************)
(* Parser::parse_set                                                       *)
(***************************************************************************)
\* a parse_set that leaves its terminator in the stream
parse_set_peeking ==
    /\ At("parse_set")
    /\ LET f == Top
           m == peek_meta(M0)
           k == peek(M0)
           m1 == next(m)
           m2 == peek_meta(m1)
       IN CASE k = f.until ->
                 Return(m, [end |-> NextItem(m).meta, values |-> f.values])
            [] k = "Inherit" /\ k # f.until ->
                 IF peek(m1) = "ParenOpen"
                 THEN Call(next(m2),
                           [pc |-> "set_inherit_from", until |-> f.until,
                            values |-> f.values, meta |-> NextItem(m).meta,
                            open |-> NextItem(m2).meta],
                           Frame("parse_expr"))
                 ELSE Jump(m2, [pc |-> "set_inherit_vars", until |-> f.until,
                                values |-> f.values, meta |-> NextItem(m).meta,
                                from |-> None, vars |-> <<>>])
            [] OTHER ->
                 Call(m, [pc |-> "set_assign", until |-> f.until, values |-> f.values],
                      parse_attr_frame)

\* the head of the entry loop
parse_set ==
    /\ At("parse_set")
    /\ LET f == Top
           m == peek_meta(M0)
           k == peek(M0)
           m1 == next(m)
           m2 == peek_meta(m1)
       IN CASE k = f.until ->
                 Return(m1, [end |-> NextItem(m).meta, values |-> f.values])
            [] k = "Inherit" /\ k # f.until ->
                 IF peek(m1) = "ParenOpen"
                 THEN Call(next(m2),
                           [pc |-> "set_inherit_from", until |-> f.until,
                            values |-> f.values, meta |-> NextItem(m).meta,
                            open |-> NextItem(m2).meta],
                           Frame("parse_expr"))
                 ELSE Jump(m2, [pc |-> "set_inherit_vars", until |-> f.until,
                                values |-> f.values, meta |-> NextItem(m).meta,
                                from |-> None, vars |-> <<>>])
            [] OTHER ->
                 Call(m, [pc |-> "set_assign", until |-> f.until, values |-> f.values],
                      parse_attr_frame)

\* inherit ( from )
set_inherit_from ==
    /\ At("set_inherit_from")
    /\ IF ExpectOk(M0, "ParenClose")
       THEN LET f == Top
                m1 == next(M0)
            IN Jump(insert(m1, ret.val),
                    [pc |-> "set_inherit_vars", until |-> f.until, values |-> f.values,
                     meta |-> f.meta,
                     from |-> Some([open |-> f.open, inner |-> NewId(m1),
                                    close |-> NextItem(M0).meta]),
                     vars |-> <<>>])
       ELSE RaiseExpect(M0, "ParenClose")

\* an inherit that collects its identifiers last first
set_inherit_vars_reversed ==
    /\ At("set_inherit_vars")
    /\ LET f == Top
           m == peek_meta(M0)
       IN IF peek(M0) = "Ident"
          THEN Jump(next(m),
                    [f EXCEPT !.vars = <<[meta |-> NextItem(m).meta,
                                          name |-> NextItem(m).tok.name]>> \o @])
          ELSE IF ExpectOk(m, "Semicolon")
          THEN Jump(next(m),
                    [pc |-> "parse_set", until |-> f.until,
                     values |-> Append(f.values,
                                       [kind |-> "Inherit", meta |-> f.meta,
                                        from |-> f.from, vars |-> f.vars,
                                        semi |-> NextItem(m).meta])])
          ELSE RaiseExpect(m, "Semicolon")

\* while let Some(Token::Ident(_)) = self.peek(), then `;`
set_inherit_vars ==
    /\ At("set_inherit_vars")
    /\ LET f == Top
           m == peek_meta(M0)
       IN IF peek(M0) = "Ident"
          THEN Jump(next(m),
                    [f EXCEPT !.vars = Append(@, [meta |-> NextItem(m).meta,
                                                  name |-> NextItem(m).tok.name])])
          ELSE IF ExpectOk(m, "Semicolon")
          THEN Jump(next(m),
                    [pc |-> "parse_set", until |-> f.until,
                     values |-> Append(f.values,
                                       [kind |-> "Inherit", meta |-> f.meta,
                                        from |-> f.from, vars |-> f.vars,
                                        semi |-> NextItem(m).meta])])
          ELSE RaiseExpect(m, "Semicolon")

\* key = value ;
set_assign ==
    /\ At("set_assign")
    /\ IF ExpectOk(M0, "Assign")
       THEN Call(next(M0),
                 [pc |-> "set_value", until |-> Top.until, values |-> Top.values,
                  key |-> ret.val.path, assign |-> NextItem(M0).meta],
                 Frame("parse_expr"))
       ELSE RaiseExpect(M0, "Assign")

set_value ==
    /\ At("set_value")
    /\ IF ExpectOk(M0, "Semicolon")
       THEN LET f == Top
                m1 == next(M0)
            IN Jump(insert(m1, ret.val),
                    [pc |-> "parse_set", until |-> f.until,
                     values |-> Append(f.values,
                                       [kind |-> "Assign", key |-> f.key,
                                        assign |-> f.assign, value |-> NewId(m1),
                                        semi |-> NextItem(M0).meta])])
       ELSE RaiseExpect(M0, "Semicolon")

(***************************************************************************)
(* The inputs: token sequences as the tokenizer hands them to parse.       *)
(***************************************************************************)
BinOps == {"Implication", "Or", "And", "Equal", "NotEqual", "Less", "LessOrEq",
           "More", "MoreOrEq", "Merge", "Add", "Sub", "Mul", "Div", "Concat",
           "Question"}

SimpleKinds == BinOps \cup
    {"ParenOpen", "ParenClose", "Import", "Rec", "CurlyBOpen", "CurlyBClose",
     "SquareBOpen", "SquareBClose", "Dot", "Comma", "Semicolon", "Colon", "At",
     "Ellipsis", "Assign", "Invert", "Let", "In", "With", "If", "Then", "Else",
     "Assert", "Inherit"}

Alphabet == {T(k) : k \in SimpleKinds} \cup
    {Id("a"), Id(OR), Val(1), Dyn(<<Id("d")>>), Interp(<<Lit("s")>>)}

Names == <<"a", "b", "c", "d", "e">>

\* a op b op c ...
RECURSIVE Chain(_)
Chain(ops) ==
    IF ops = <<>> THEN <<Id(Names[1])>>
    ELSE Chain(SubSeq(ops, 1, Len(ops) - 1))
         \o <<T(ops[Len(ops)]), Id(Names[Len(ops) + 1])>>
OpChains == {Chain(ops) : ops \in UNION {[1..n -> BinOps] : n \in 0..MaxOps}}

\* f x y ..., alone, before `+ 3`, and as the elements of a list
Atoms == {Id("a"), Val(2)}
Juxta == UNION {[1..n -> Atoms] : n \in 0..MaxArgs}
Applications ==
    {<<Id("f")>> \o j : j \in Juxta}
    \cup {<<Id("f")>> \o j \o <<T("Add"), Val(3)>> : j \in Juxta}
    \cup {<<T("SquareBOpen")>> \o j \o <<T("SquareBClose")>> : j \in Juxta}
\* an application on either side of a binary operator
AppChains ==
    {<<Id("a"), T(op), Id("f"), Id("b")>> : op \in BinOps}
    \cup {<<Id("f"), Id("a"), T(op), Id("b")>> : op \in BinOps}

\* every token sequence of at most two tokens, and `{ t1 t2` for every t1, t2
Short == {<<>>} \cup {<<t>> : t \in Alphabet} \cup {<<t, u>> : t, u \in Alphabet}
CurlyLook == {<<T("CurlyBOpen"), t, u>> : t, u \in Alphabet}

Programs == {
    \* { a = 1; b = 2; }
    <<T("CurlyBOpen"), Id("a"), T("Assign"), Val(1), T("Semicolon"),
      Id("b"), T("Assign"), Val(2), T("Semicolon"), T("CurlyBClose")>>,
    \* rec { a = 1; }
    <<T("Rec"), T("CurlyBOpen"), Id("a"), T("Assign"), Val(1), T("Semicolon"),
      T("CurlyBClose")>>,
    \* { a."b" = 1; "c".${d} = 2; }
    <<T("CurlyBOpen"), Id("a"), T("Dot"), Val(7), T("Assign"), Val(1), T("Semicolon"),
      Interp(<<Lit("c")>>), T("Dot"), Dyn(<<Id("d")>>), T("Assign"), Val(2),
      T("Semicolon"), T("CurlyBClose")>>,
    \* 5 * -(3 - 2)
    <<Val(5), T("Mul"), T("Sub"), T("ParenOpen"), Val(3), T("Sub"), Val(2),
      T("ParenClose")>>,
    \* 1 + 2 * 3
    <<Val(1), T("Add"), Val(2), T("Mul"), Val(3)>>,
    \* let a = 42; in a
    <<T("Let"), Id("a"), T("Assign"), Val(42), T("Semicolon"), T("In"), Id("a")>>,
    \* let { a = 42; body = a; }
    <<T("Let"), T("CurlyBOpen"), Id("a"), T("Assign"), Val(42), T("Semicolon"),
      Id("body"), T("Assign"), Id("a"), T("Semicolon"), T("CurlyBClose")>>,
    \* with ns; e
    <<T("With"), Id("ns"), T("Semicolon"), Id("e")>>,
    \* assert a; b
    <<T("Assert"), Id("a"), T("Semicolon"), Id("b")>>,
    \* import p {}
    <<T("Import"), Val(9), T("CurlyBOpen"), T("CurlyBClose")>>,
    \* a.b.c
    <<Id("a"), T("Dot"), Id("b"), T("Dot"), Id("c")>>,
    \* test."x"."hi".${a}
    <<Id("test"), T("Dot"), Val(7), T("Dot"), Interp(<<Lit("hi")>>), T("Dot"),
      Dyn(<<Id("a")>>)>>,
    \* "Hello, ${ { w = 1; }.w }!"
    <<Interp(<<Lit("Hello, "),
               Toks(<<T("CurlyBOpen"), Id("w"), T("Assign"), Val(1), T("Semicolon"),
                      T("CurlyBClose"), T("Dot"), Id("w")>>),
               Lit("!")>>)>>,
    \* "${a}${b + 1}" + ${c}
    <<Interp(<<Toks(<<Id("a")>>), Toks(<<Id("b"), T("Add"), Val(1)>>)>>), T("Add"),
      Dyn(<<Id("c")>>)>>,
    \* "x${+}" and "${a}${+}" and ${} and a.${ } and a."${ ( }": the nested parse fails
    <<Interp(<<Lit("x"), Toks(<<T("Add")>>)>>)>>,
    <<Interp(<<Toks(<<Id("a")>>), Toks(<<T("Add")>>)>>)>>,
    <<Dyn(<<>>)>>,
    <<Id("a"), T("Dot"), Dyn(<<>>)>>,
    <<Id("a"), T("Dot"), Interp(<<Toks(<<T("ParenOpen")>>)>>)>>,
    \* [1] ++ [2] ++ [3]
    <<T("SquareBOpen"), Val(1), T("SquareBClose"), T("Concat"),
      T("SquareBOpen"), Val(2), T("SquareBClose"), T("Concat"),
      T("SquareBOpen"), Val(3), T("SquareBClose")>>,
    \* a: b: a + b
    <<Id("a"), T("Colon"), Id("b"), T("Colon"), Id("a"), T("Add"), Id("b")>>,
    \* {}: 1
    <<T("CurlyBOpen"), T("CurlyBClose"), T("Colon"), Val(1)>>,
    \* {}@x: x
    <<T("CurlyBOpen"), T("CurlyBClose"), T("At"), Id("x"), T("Colon"), Id("x")>>,
    \* {...}: 1
    <<T("CurlyBOpen"), T("Ellipsis"), T("CurlyBClose"), T("Colon"), Val(1)>>,
    \* {a, b ? d}: a
    <<T("CurlyBOpen"), Id("a"), T("Comma"), Id("b"), T("Question"), Id("d"),
      T("CurlyBClose"), T("Colon"), Id("a")>>,
    \* {a ? 1, b, ...}: a
    <<T("CurlyBOpen"), Id("a"), T("Question"), Val(1), T("Comma"), Id("b"), T("Comma"),
      T("Ellipsis"), T("CurlyBClose"), T("Colon"), Id("a")>>,
    \* outer@{a}: a
    <<Id("outer"), T("At"), T("CurlyBOpen"), Id("a"), T("CurlyBClose"), T("Colon"),
      Id("a")>>,
    \* x@{}@y: x
    <<Id("x"), T("At"), T("CurlyBOpen"), T("CurlyBClose"), T("At"), Id("y"),
      T("Colon"), Id("x")>>,
    \* x@{a, ...}@y: a
    <<Id("x"), T("At"), T("CurlyBOpen"), Id("a"), T("Comma"), T("Ellipsis"),
      T("CurlyBClose"), T("At"), Id("y"), T("Colon"), Id("a")>>,
    \* (a): b
    <<T("ParenOpen"), Id("a"), T("ParenClose"), T("Colon"), Id("b")>>,
    \* [ a b ]
    <<T("SquareBOpen"), Id("a"), Id("b"), T("SquareBClose")>>,
    \* [ f x ]
    <<T("SquareBOpen"), Id("f"), Id("x"), T("SquareBClose")>>,
    \* { x = 1; inherit b; y = 2; }
    <<T("CurlyBOpen"), Id("x"), T("Assign"), Val(1), T("Semicolon"), T("Inherit"),
      Id("b"), T("Semicolon"), Id("y"), T("Assign"), Val(2), T("Semicolon"),
      T("CurlyBClose")>>,
    \* let { a = 1; } b
    <<T("Let"), T("CurlyBOpen"), Id("a"), T("Assign"), Val(1), T("Semicolon"),
      T("CurlyBClose"), Id("b")>>,
    \* {a, b c}: a
    <<T("CurlyBOpen"), Id("a"), T("Comma"), Id("b"), Id("c"), T("CurlyBClose"),
      T("Colon"), Id("a")>>,
    \* {a, ..., b}: a
    <<T("CurlyBOpen"), Id("a"), T("Comma"), T("Ellipsis"), T("Comma"), Id("b"),
      T("CurlyBClose"), T("Colon"), Id("a")>>,
    \* if false then 1 else if true then 2 else 3
    <<T("If"), Val(0), T("Then"), Val(1), T("Else"), T("If"), Val(1), T("Then"),
      Val(2), T("Else"), Val(3)>>,
    \* a ? "b" && true
    <<Id("a"), T("Question"), Val(7), T("And"), Val(1)>>,
    \* false -> !false && false == true || true
    <<Val(0), T("Implication"), T("Invert"), Val(0), T("And"), Val(0), T("Equal"),
      Val(1), T("Or"), Val(1)>>,
    \* { inherit a b; inherit (s) a; inherit; }
    <<T("CurlyBOpen"), T("Inherit"), Id("a"), Id("b"), T("Semicolon"),
      T("Inherit"), T("ParenOpen"), Id("s"), T("ParenClose"), Id("a"), T("Semicolon"),
      T("Inherit"), T("Semicolon"), T("CurlyBClose")>>,
    \* a.b.c or 1 + 1
    <<Id("a"), T("Dot"), Id("b"), T("Dot"), Id("c"), Id(OR), Val(1), T("Add"), Val(1)>>,
    \* a.b or c.d
    <<Id("a"), T("Dot"), Id("b"), Id(OR), Id("c"), T("Dot"), Id("d")>>,
    \* - - a * !b
    <<T("Sub"), T("Sub"), Id("a"), T("Mul"), T("Invert"), Id("b")>>,
    \* ! ! a // (b)
    <<T("Invert"), T("Invert"), Id("a"), T("Merge"), T("ParenOpen"), Id("b"),
      T("ParenClose")>>
}

Prefixes(s) == {SubSeq(s, 1, n) : n \in 0..Len(s)}
\* one token replaced by `in`, which no production but let ... in admits
Replaced(s) == {[s EXCEPT ![i] = T("In")] : i \in 1..Len(s)}

RawInputs ==
    OpChains \cup Applications \cup AppChains \cup Short \cup CurlyLook
    \cup UNION {Prefixes(s) \cup Replaced(s) : s \in Programs}

Inputs == {Tokenize(rs) : rs \in RawInputs}

(***************************************************************************)
(* The specification.                                                      *)
(***************************************************************************)
Init ==
    /\ input \in Inputs
    /\ parsers = <<>>
    /\ arena = <<>>
    /\ stack = <<Frame("parse")>>
    /\ ret = Void
    /\ result = [status |-> "running"]
    /\ consumed = <<>>

Next ==
    \/ parse \/ parse_ret \/ propagate \/ parse_branch_ret
    \/ parse_expr \/ expr_let \/ expr_let_in \/ expr_let_in_body
    \/ expr_with \/ expr_with_rest \/ expr_if \/ expr_if_then \/ expr_if_else
    \/ expr_assert \/ expr_assert_rest \/ expr_math \/ expr_lambda
    \/ math_start \/ math_peek \/ math_expr \/ unary_start \/ unary_expr
    \/ parse_fn \/ fn_peek \/ fn_arg
    \/ parse_val \/ val_paren \/ val_import \/ val_set \/ val_list \/ val_list_val
    \/ dynamic \/ interpol_node \/ val_postfix \/ val_attr \/ val_default
    \/ parse_interpol \/ interpol_ast
    \/ next_attr \/ parse_attr \/ attr_peek
    \/ parse_pattern \/ pat_default \/ pat_comma \/ pat_close \/ pat_colon \/ pat_expr
    \/ parse_set \/ set_inherit_from \/ set_inherit_vars \/ set_assign \/ set_value

Spec == Init /\ [][Next]_vars

(***************************************************************************)
(* Reading a tree: the NodeIds and the Metas a node holds, by ASTType,     *)
(* SetEntry, Attribute, LambdaArg and Interpol.                            *)
(***************************************************************************)
RECURSIVE Concat(_)
Concat(ss) == IF ss = <<>> THEN <<>> ELSE Head(ss) \o Concat(Tail(ss))
Range(s) == {s[i] : i \in DOMAIN s}
Get(a, id) == a[id + 1]

EntryIds(e) ==
    IF e.kind = "Assign"
    THEN [i \in 1..Len(e.key) |-> e.key[i].id] \o <<e.value>>
    ELSE IF IsSome(e.from) THEN <<Unwrap(e.from).inner>> ELSE <<>>
EntryMetas(e) ==
    IF e.kind = "Assign"
    THEN Concat([i \in 1..Len(e.key) |-> e.key[i].dot]) \o <<e.assign, e.semi>>
    ELSE <<e.meta>>
         \o (IF IsSome(e.from) THEN <<Unwrap(e.from).open, Unwrap(e.from).close>> ELSE <<>>)
         \o [i \in 1..Len(e.vars) |-> e.vars[i].meta] \o <<e.semi>>
EntriesIds(es) == Concat([i \in 1..Len(es) |-> EntryIds(es[i])])
EntriesMetas(es) == Concat([i \in 1..Len(es) |-> EntryMetas(es[i])])

PatEntryIds(e) == IF IsSome(e.default) THEN <<Unwrap(e.default).expr>> ELSE <<>>
PatEntryMetas(e) ==
    <<e.ident>>
    \o (IF IsSome(e.default) THEN <<Unwrap(e.default).question>> ELSE <<>>)
    \o e.comma
ArgIds(arg) ==
    IF arg.kind = "Ident" THEN <<>>
    ELSE Concat([i \in 1..Len(arg.args) |-> PatEntryIds(arg.args[i])])
ArgMetas(arg) ==
    IF arg.kind = "Ident" THEN <<arg.meta>>
    ELSE (IF IsSome(arg.bind) /\ Unwrap(arg.bind).before
          THEN <<Unwrap(arg.bind).ident, Unwrap(arg.bind).at>> ELSE <<>>)
         \o <<arg.open>>
         \o Concat([i \in 1..Len(arg.args) |-> PatEntryMetas(arg.args[i])])
         \o arg.ellipsis \o <<arg.close>>
         \o (IF IsSome(arg.bind) /\ ~Unwrap(arg.bind).before
             THEN <<Unwrap(arg.bind).at, Unwrap(arg.bind).ident>> ELSE <<>>)

PartsIds(ps) == Concat([i \in 1..Len(ps) |-> IF ps[i].lit THEN <<>> ELSE <<ps[i].ast>>])
PartsMetas(ps) == Concat([i \in 1..Len(ps) |-> IF ps[i].lit THEN <<>> ELSE <<ps[i].close>>])

\* the NodeIds stored in the fields of a node
ChildIds(ty) ==
    CASE ty.type = "Interpol" -> PartsIds(ty.parts)
      [] ty.type = "Lambda" -> ArgIds(ty.arg) \o <<ty.body>>
      [] ty.type = "List" -> ty.values
      [] ty.type = "Parens" -> <<ty.inner>>
      [] ty.type = "Set" -> EntriesIds(ty.values)
      [] ty.type = "Assert" -> <<ty.condition, ty.rest>>
      [] ty.type = "IfElse" -> <<ty.condition, ty.then_body, ty.else_body>>
      [] ty.type = "Import" -> <<ty.value>>
      [] ty.type = "Let" -> EntriesIds(ty.values)
      [] ty.type = "LetIn" -> EntriesIds(ty.vars) \o <<ty.body>>
      [] ty.type = "With" -> <<ty.vars, ty.rest>>
      [] ty.type = "Apply" -> <<ty.f, ty.arg>>
      [] ty.type = "Dynamic" -> <<ty.ast>>
      [] ty.type = "IndexSet" -> <<ty.set, ty.attr>>
      [] ty.type = "Unary" -> <<ty.operand>>
      [] ty.type = "OrDefault" -> <<ty.set, ty.attr, ty.default>>
      [] ty.type = "Operation" -> <<ty.lhs, ty.rhs>>
      [] OTHER -> <<>>

\* the Metas stored in the fields of a node
NodeMetas(ty) ==
    CASE ty.type = "Interpol" -> <<ty.meta>> \o PartsMetas(ty.parts)
      [] ty.type = "Lambda" -> ArgMetas(ty.arg) \o <<ty.colon>>
      [] ty.type = "List" -> <<ty.open, ty.close>>
      [] ty.type = "Parens" -> <<ty.open, ty.close>>
      [] ty.type = "Set" -> ty.recursive \o <<ty.open>> \o EntriesMetas(ty.values)
                            \o <<ty.close>>
      [] ty.type = "Value" -> <<ty.meta>>
      [] ty.type = "Var" -> <<ty.meta>>
      [] ty.type = "Assert" -> <<ty.assert_, ty.semi>>
      [] ty.type = "IfElse" -> <<ty.if_meta, ty.then_meta, ty.else_meta>>
      [] ty.type = "Import" -> <<ty.import_>>
      [] ty.type = "Let" -> <<ty.let_, ty.open>> \o EntriesMetas(ty.values) \o <<ty.close>>
      [] ty.type = "LetIn" -> <<ty.let_>> \o EntriesMetas(ty.vars) \o <<ty.in_>>
      [] ty.type = "With" -> <<ty.with_, ty.semi>>
      [] ty.type = "Apply" -> <<>>
      [] ty.type = "Dynamic" -> <<ty.meta, ty.close>>
      [] ty.type = "IndexSet" -> <<ty.dot>>
      [] ty.type = "Unary" -> <<ty.meta>>
      [] ty.type = "OrDefault" -> <<ty.dot, ty.or_>>
      [] ty.type = "Operation" -> <<ty.meta>>
      [] OTHER -> <<>>

\* every Meta stored transitively inside a node, each as often as it is stored
RECURSIVE TreeMetas(_, _)
TreeMetas(a, node) ==
    NodeMetas(node.ty)
    \o Concat([i \in 1..Len(ChildIds(node.ty)) |->
                  TreeMetas(a, Get(a, ChildIds(node.ty)[i]))])

Contains(outer, inner) == outer.start <= inner.start /\ inner.end <= outer.end
SpanCovers(a, node) == \A meta \in Range(TreeMetas(a, node)) : Contains(node.span, meta.span)
Succeeded == result.status = "ok"
\* the nodes of a successful parse: the root and every arena node
ResultNodes == {result.root} \cup Range(result.arena)

(***************************************************************************)
(* C1  Span containment: after a successful parse, the span of every node  *)
(* (the root and every arena node) contains the span of every Meta stored  *)
(* transitively inside it.                                                 *)
(***************************************************************************)
C1_SpanContainment ==
    Succeeded => \A node \in ResultNodes : SpanCovers(result.arena, node)

(***************************************************************************)
(* The shape of a tree: its operators and leaves, without Metas and spans. *)
(***************************************************************************)
RECURSIVE Shape(_, _)
Shape(a, node) ==
    LET ty == node.ty IN
    CASE ty.type = "Operation" ->
            [op |-> ty.op, lhs |-> Shape(a, Get(a, ty.lhs)), rhs |-> Shape(a, Get(a, ty.rhs))]
      [] ty.type = "Apply" ->
            [apply |-> Shape(a, Get(a, ty.f)), arg |-> Shape(a, Get(a, ty.arg))]
      [] ty.type = "Unary" -> [unary |-> ty.op, operand |-> Shape(a, Get(a, ty.operand))]
      [] ty.type = "Parens" -> [parens |-> Shape(a, Get(a, ty.inner))]
      [] ty.type = "Lambda" /\ ty.arg.kind = "Ident" ->
            [lambda |-> ty.arg.name, body |-> Shape(a, Get(a, ty.body))]
      [] ty.type = "IndexSet" ->
            [set |-> Shape(a, Get(a, ty.set)), attr |-> Shape(a, Get(a, ty.attr))]
      [] ty.type = "OrDefault" ->
            [set |-> Shape(a, Get(a, ty.set)), attr |-> Shape(a, Get(a, ty.attr)),
             default |-> Shape(a, Get(a, ty.default))]
      [] ty.type = "Import" -> [import |-> Shape(a, Get(a, ty.value))]
      [] ty.type = "List" ->
            [list |-> [i \in 1..Len(ty.values) |-> Shape(a, Get(a, ty.values[i]))]]
      [] ty.type = "Var" -> [var |-> ty.name]
      [] ty.type = "Value" -> [value |-> ty.value]
      [] OTHER -> [type |-> ty.type]

Op(l, op, r) == [op |-> op, lhs |-> l, rhs |-> r]
App(f, x) == [apply |-> f, arg |-> x]
V(name) == [var |-> name]
N(v) == [value |-> v]
\* the Operator a binary operator token stands for
OperatorOf(k) == IF k = "Question" THEN "IsSet" ELSE k
RootShape == Shape(result.arena, result.root)
Finished == result.status # "running"

\* the binary operator tokens of an input of the form x op y op z ...
OpsOf(toks) == [i \in 1..((Len(toks) - 1) \div 2) |-> toks[2 * i].tok.kind]
IsChain(toks) ==
    /\ Len(toks) % 2 = 1
    /\ \A i \in 1..((Len(toks) - 1) \div 2) : toks[2 * i].tok.kind \in BinOps
    /\ toks = Tokenize(Chain(OpsOf(toks)))

EqualOps == {"Equal", "NotEqual"}
CompareOps == {"Less", "LessOrEq", "More", "MoreOrEq"}

(***************************************************************************)
(* C2  Chaining a non-associative operator is a syntax error: parse of     *)
(* `x op1 y op2 z` with op1, op2 both equality operators or both           *)
(* comparison operators returns an Err, never an Ok tree.                  *)
(***************************************************************************)
C2_ChainedNonAssocIsError ==
    (/\ Finished
     /\ IsChain(input) /\ Len(input) = 5
     /\ \/ {input[2].tok.kind, input[4].tok.kind} \subseteq EqualOps
        \/ {input[2].tok.kind, input[4].tok.kind} \subseteq CompareOps)
    => result.status = "err"

(***************************************************************************)
(* C3  `->` is right-associative: `a -> b -> c` parses to                  *)
(* Operation(a, Implication, Operation(b, Implication, c)).                *)
(***************************************************************************)
C3_ImplicationRightAssoc ==
    (Finished /\ input = Tokenize(Chain(<<"Implication", "Implication">>)))
    => /\ Succeeded
       /\ RootShape = Op(V("a"), "Implication", Op(V("b"), "Implication", V("c")))

(***************************************************************************)
(* C4  Precedence ladder: for two binary operators of different levels,    *)
(* in `a op1 b op2 c` the operation of the tighter operator is a child of  *)
(* the operation of the looser one, whichever comes first; application     *)
(* binds tighter than every binary operator; `1 + 2 * 3` is                *)
(* Add(1, Mul(2, 3)) and `5 * -(3 - 2)` is Mul(5, Negate(Parens(Sub(3, 2)))).*)
(***************************************************************************)
\* the level of an operator on the ladder: a lower level binds looser
Ladder(k) ==
    CASE k = "Implication" -> 1
      [] k = "Or" -> 2
      [] k = "And" -> 3
      [] k \in EqualOps -> 4
      [] k \in CompareOps -> 5
      [] k = "Merge" -> 6
      [] k \in {"Add", "Sub"} -> 8
      [] k \in {"Mul", "Div"} -> 9
      [] k = "Concat" -> 10
      [] k = "Question" -> 11

C4_Precedence ==
    Finished =>
    /\ (IsChain(input) /\ Len(input) = 5
        /\ Ladder(input[2].tok.kind) # Ladder(input[4].tok.kind))
       => LET o1 == input[2].tok.kind
              o2 == input[4].tok.kind
          IN /\ Succeeded
             /\ RootShape =
                  IF Ladder(o1) < Ladder(o2)
                  THEN Op(V("a"), OperatorOf(o1), Op(V("b"), OperatorOf(o2), V("c")))
                  ELSE Op(Op(V("a"), OperatorOf(o1), V("b")), OperatorOf(o2), V("c"))
    /\ \A op \in BinOps :
          /\ input = Tokenize(<<Id("a"), T(op), Id("f"), Id("b")>>)
             => Succeeded /\ RootShape = Op(V("a"), OperatorOf(op), App(V("f"), V("b")))
          /\ input = Tokenize(<<Id("f"), Id("a"), T(op), Id("b")>>)
             => Succeeded /\ RootShape = Op(App(V("f"), V("a")), OperatorOf(op), V("b"))
    /\ input = Tokenize(<<Val(1), T("Add"), Val(2), T("Mul"), Val(3)>>)
       => Succeeded /\ RootShape = Op(N(1), "Add", Op(N(2), "Mul", N(3)))
    /\ input = Tokenize(<<Val(5), T("Mul"), T("Sub"), T("ParenOpen"), Val(3), T("Sub"),
                          Val(2), T("ParenClose")>>)
       => Succeeded
          /\ RootShape = Op(N(5), "Mul", [unary |-> "Negate",
                                          operand |-> [parens |-> Op(N(3), "Sub", N(2))]])

C4_Witness ==
    /\ Succeeded
    /\ input = Tokenize(Chain(<<"Mul", "Add">>))
    /\ RootShape = Op(Op(V("a"), "Mul", V("b")), "Add", V("c"))

(***************************************************************************)
(* C5  The looping levels fold to the left: a chain of operators of one    *)
(* of the levels ||, &&, //, + -, * /, ++, ? parses to                     *)
(* Operation(Operation(a, op, b), op, c) and so on, and `f x y` to         *)
(* Apply(Apply(f, x), y): the loop goes on while the next token is an      *)
(* operator of the level.                                                  *)
(***************************************************************************)
LoopingLevels == {2, 3, 6, 8, 9, 10, 11}

RECURSIVE LeftFold(_)
LeftFold(ops) ==
    IF ops = <<>> THEN V(Names[1])
    ELSE Op(LeftFold(SubSeq(ops, 1, Len(ops) - 1)), OperatorOf(ops[Len(ops)]),
            V(Names[Len(ops) + 1]))

AtomShape(r) == IF r.kind = "Ident" THEN V(r.name) ELSE N(r.value)
RECURSIVE LeftApply(_)
LeftApply(rs) ==
    IF Len(rs) = 1 THEN AtomShape(rs[1])
    ELSE App(LeftApply(SubSeq(rs, 1, Len(rs) - 1)), AtomShape(rs[Len(rs)]))

C5_LeftAssoc ==
    Finished =>
    /\ (/\ IsChain(input)
        /\ \E lvl \in LoopingLevels : \A i \in DOMAIN OpsOf(input) : Ladder(OpsOf(input)[i]) = lvl)
       => Succeeded /\ RootShape = LeftFold(OpsOf(input))
    /\ \A j \in Juxta :
          input = Tokenize(<<Id("f")>> \o j)
          => Succeeded /\ RootShape = LeftApply(<<Id("f")>> \o j)

C5_Witness ==
    /\ Succeeded
    /\ \/ /\ input = Tokenize(Chain(<<"Concat", "Concat">>))
          /\ RootShape = Op(Op(V("a"), "Concat", V("b")), "Concat", V("c"))
       \/ /\ input = Tokenize(<<Id("f"), Id("a"), Val(2)>>)
          /\ RootShape = App(App(V("f"), V("a")), N(2))

(***************************************************************************)
(* What the running parser has still to hand out: its lookahead buffer,    *)
(* top first, then the rest of its token sequence.                         *)
(***************************************************************************)
Reverse(q) == [i \in 1..Len(q) |-> q[Len(q) + 1 - i]]
Upcoming == LET p == parsers[Len(parsers)] IN
            Reverse(p.buffer) \o SubSeq(p.toks, p.pos, Len(p.toks))
UpcomingKind(i) == IF i <= Len(Upcoming) THEN Upcoming[i].tok.kind ELSE "EOF"
Running == result.status = "running" /\ stack # <<>> /\ ret.ok

(***************************************************************************)
(* C6  parse_equal and parse_compare consume at most one operator of their *)
(* level per call: what either returns is never an operation of the level  *)
(* whose own operand is an operation of the level, and on a chain such as  *)
(* `a == b == c` the call returns Operation(a, Equal, b) with the second   *)
(* `==` the next token and c not consumed.                                 *)
(***************************************************************************)
IsOperationOf(node, ops) == node.ty.type = "Operation" /\ node.ty.op \in ops
\* the level's method has just returned ret to the level above, `caller`
ReturnedTo(caller) ==
    /\ Running
    /\ Top.pc \in {"math_peek", "math_expr"}
    /\ Top.fn = caller
OnceLevels == {[caller |-> "parse_and", ops |-> EqualOps],
               [caller |-> "parse_equal", ops |-> CompareOps]}

C6_OneOperatorPerCall ==
    \A lvl \in OnceLevels :
        ReturnedTo(lvl.caller) =>
        /\ IsOperationOf(ret.val, lvl.ops)
           => /\ ~IsOperationOf(Get(arena, ret.val.ty.lhs), lvl.ops)
              /\ ~IsOperationOf(Get(arena, ret.val.ty.rhs), lvl.ops)
        /\ (/\ IsChain(input) /\ Len(input) >= 5
            /\ {input[2].tok.kind, input[4].tok.kind} \subseteq lvl.ops)
           => /\ Shape(arena, ret.val) = Op(V("a"), input[2].tok.kind, V("b"))
              /\ Upcoming = SubSeq(input, 4, Len(input))
              /\ consumed = SubSeq(input, 1, 3)

C6_Witness ==
    /\ ReturnedTo("parse_and")
    /\ input = Tokenize(Chain(<<"Equal", "Equal">>))
    /\ Shape(arena, ret.val) = Op(V("a"), "Equal", V("b"))
    /\ UpcomingKind(1) = "Equal"

(***************************************************************************)
(* C7  At `{`, with t1 the next token and t2 the one after it, the pattern *)
(* parser runs if and only if (t1, t2) is one of (Ident, `,`), (Ident, `?`),*)
(* (`...`, `}`), (Ident, `}`), (`}`, `:`), (`}`, `@`); in every other case,*)
(* t2 being the end of input included, the set parser runs.  `{}` is an    *)
(* empty non-recursive Set, `{}: 1` a Lambda with an empty pattern,        *)
(* `{}@x: x` a Lambda with a bind, `{a, b ? d}: a` a pattern Lambda with a *)
(* default.                                                                *)
(***************************************************************************)
PatternPairs == {<<"Ident", "Comma">>, <<"Ident", "Question">>,
                 <<"Ellipsis", "CurlyBClose">>, <<"Ident", "CurlyBClose">>,
                 <<"CurlyBClose", "Colon">>, <<"CurlyBClose", "At">>}
\* parse_pattern(open, None) has just been entered
PatternStarts ==
    Running /\ Top.pc = "parse_pattern" /\ Top.args = <<>> /\ Top.bind = None
\* parse_set has just been entered for a `{` that no `rec` or `let` precedes
SetStarts ==
    /\ Running /\ Top.pc = "parse_set" /\ Top.values = <<>>
    /\ Len(stack) > 1
    /\ stack[Len(stack) - 1].pc = "val_set"
    /\ stack[Len(stack) - 1].recursive = None
\* `{` is the last token handed out
AfterCurly == Running /\ consumed # <<>> /\ consumed[Len(consumed)].tok.kind = "CurlyBOpen"
PrecededBy(kinds) ==
    Len(consumed) > 1 /\ consumed[Len(consumed) - 1].tok.kind \in kinds
\* the frame belongs to the set or the pattern that the `{` of Meta `open` began
OpenedBy(frame, open) ==
    /\ frame.pc \in {"val_set", "parse_pattern", "pat_default", "pat_comma", "pat_close"}
    /\ frame.open = open
RootArg == result.root.ty.arg

C7_SetOrPattern ==
    /\ PatternStarts => <<UpcomingKind(1), UpcomingKind(2)>> \in PatternPairs
    /\ SetStarts => /\ UpcomingKind(1) # "EOF"
                    /\ <<UpcomingKind(1), UpcomingKind(2)>> \notin PatternPairs
    /\ (AfterCurly /\ ~PrecededBy({"Rec", "Let", "At"}))
       => \E i \in DOMAIN stack : OpenedBy(stack[i], consumed[Len(consumed)].meta)
    /\ (Finished /\ input = Tokenize(<<T("CurlyBOpen"), T("CurlyBClose")>>))
       => /\ Succeeded
          /\ result.root.ty.type = "Set"
          /\ result.root.ty.recursive = None
          /\ result.root.ty.values = <<>>
    /\ (Finished /\ input = Tokenize(<<T("CurlyBOpen"), T("CurlyBClose"), T("Colon"), Val(1)>>))
       => /\ Succeeded
          /\ result.root.ty.type = "Lambda"
          /\ RootArg.kind = "Pattern" /\ RootArg.args = <<>> /\ RootArg.bind = None
    /\ (Finished /\ input = Tokenize(<<T("CurlyBOpen"), T("CurlyBClose"), T("At"), Id("x"),
                                       T("Colon"), Id("x")>>))
       => /\ Succeeded
          /\ result.root.ty.type = "Lambda"
          /\ RootArg.kind = "Pattern" /\ RootArg.args = <<>>
          /\ IsSome(RootArg.bind) /\ Unwrap(RootArg.bind).name = "x"
    /\ (Finished /\ input = Tokenize(<<T("CurlyBOpen"), Id("a"), T("Comma"), Id("b"),
                                       T("Question"), Id("d"), T("CurlyBClose"),
                                       T("Colon"), Id("a")>>))
       => /\ Succeeded
          /\ result.root.ty.type = "Lambda"
          /\ RootArg.kind = "Pattern" /\ Len(RootArg.args) = 2
          /\ RootArg.args[1].name = "a" /\ RootArg.args[1].default = None
          /\ RootArg.args[2].name = "b" /\ IsSome(RootArg.args[2].default)

C7_Witness ==
    /\ SetStarts
    /\ UpcomingKind(1) = "Ident"
    /\ UpcomingKind(2) = "EOF"

(***************************************************************************)
(* C8  Arena closure: after a successful parse, every NodeId stored in a   *)
(* field of the root or of an arena node, the nodes of nested parses       *)
(* included, is the index of a live slot of the returned arena, and no id  *)
(* was given to two nodes: no two fields hold the same id.                 *)
(***************************************************************************)
StoredIds ==
    ChildIds(result.root.ty)
    \o Concat([i \in 1..Len(result.arena) |-> ChildIds(result.arena[i].ty)])
Live(slot) == DOMAIN slot = {"span", "ty"} /\ slot.ty.type # "Void"

C8_ArenaClosure ==
    Succeeded =>
    /\ \A i \in DOMAIN StoredIds :
          /\ StoredIds[i] \in 0..(Len(result.arena) - 1)
          /\ Live(Get(result.arena, StoredIds[i]))
    /\ \A i, j \in DOMAIN StoredIds : i # j => StoredIds[i] # StoredIds[j]

\* "${a}${b + 1}" + ${c}: three nested parses
C8_Witness ==
    /\ Succeeded
    /\ input = Tokenize(<<Interp(<<Toks(<<Id("a")>>), Toks(<<Id("b"), T("Add"), Val(1)>>)>>),
                          T("Add"), Dyn(<<Id("c")>>)>>)
    /\ Len(StoredIds) = Len(result.arena)
    /\ Len(result.arena) > 4

(***************************************************************************)
(* C9  Meta preservation: after a successful parse, the Meta of every      *)
(* token the parser consumed, at top level or in a nested sequence, and    *)
(* the close Metas carried by the consumed Dynamic and interpolation       *)
(* tokens, each appear exactly once in the returned tree, unchanged;       *)
(* the tree holds no other Meta.                                           *)
(***************************************************************************)
CloseMetas(tok) ==
    CASE tok.kind = "Dynamic" -> <<tok.close>>
      [] tok.kind = "Interpol" ->
            Concat([i \in 1..Len(tok.parts) |->
                       IF tok.parts[i].lit THEN <<>> ELSE <<tok.parts[i].close>>])
      [] OTHER -> <<>>
ConsumedMetas ==
    Concat([i \in 1..Len(consumed) |-> <<consumed[i].meta>> \o CloseMetas(consumed[i].tok)])
RootMetas == TreeMetas(result.arena, result.root)
Times(x, q) == Cardinality({i \in DOMAIN q : q[i] = x})

C9_MetaPreservation ==
    Succeeded =>
    /\ \A i \in DOMAIN ConsumedMetas : Times(ConsumedMetas[i], RootMetas) = 1
    /\ \A i \in DOMAIN RootMetas : Times(RootMetas[i], ConsumedMetas) = 1

\* {a ? 1, b, ...}: a
C9_Witness ==
    /\ Succeeded
    /\ input = Tokenize(<<T("CurlyBOpen"), Id("a"), T("Question"), Val(1), T("Comma"),
                          Id("b"), T("Comma"), T("Ellipsis"), T("CurlyBClose"),
                          T("Colon"), Id("a")>>)
    /\ Len(RootMetas) = Len(input)

(***************************************************************************)
(* C10  Error span attribution: an error about an offending token t        *)
(* (Expected(e, Some(t)), ExpectedType(kind, t), Unexpected(t)) carries    *)
(* Some(span of t), t being the token just taken from the stream; an error *)
(* about the end of the stream (UnexpectedEOF, Expected(e, None)) carries  *)
(* None and is raised by a parser with nothing left; `{ ; }` reports       *)
(* ExpectedType("attribute", Semicolon) at the span of the `;`.            *)
(***************************************************************************)
AboutToken(e) ==
    e.kind \in {"ExpectedType", "Unexpected"} \/ (e.kind = "Expected" /\ IsSome(e.actual))
AboutEnd(e) ==
    e.kind = "UnexpectedEOF" \/ (e.kind = "Expected" /\ e.actual = None)
Attributed(span, e, taken) ==
    /\ AboutToken(e) => /\ taken # <<>>
                        /\ Unwrap(e.actual) = taken[Len(taken)].tok
                        /\ span = Some(taken[Len(taken)].meta.span)
    /\ AboutEnd(e) => span = None
Exhausted(p) == p.buffer = <<>> /\ p.pos > Len(p.toks)

C10_Raised ==
    (ret.ok /\ ~ret'.ok)
    => /\ Attributed(ret'.span, ret'.err, consumed')
       /\ AboutEnd(ret'.err) => Exhausted(parsers'[Len(parsers')])
C10_Reported ==
    (result.status = "running" /\ result'.status = "err")
    => /\ Attributed(result'.span, result'.err, consumed')
       /\ input = Tokenize(<<T("CurlyBOpen"), T("Semicolon"), T("CurlyBClose")>>)
          => /\ result'.err = ExpectedType("attribute", T("Semicolon"))
             /\ result'.span = Some(input[2].meta.span)

C10_ErrorSpans == [][C10_Raised /\ C10_Reported]_vars

C10_Witness ==
    /\ input = Tokenize(<<T("CurlyBOpen"), T("Semicolon"), T("CurlyBClose")>>)
    /\ result.status = "err"
    /\ result.err.kind = "ExpectedType"
    /\ result.span = Some(input[2].meta.span)

(***************************************************************************)
(* C11  AlreadyBound: when a pattern with a leading bind (`name @ { .. }`) *)
(* is followed by a second `@` after its `}`, the parse fails with         *)
(* AlreadyBound at the span of that `@`, the identifier after it not yet   *)
(* read; AlreadyBound is raised nowhere else; and in a parsed tree a bind  *)
(* has before = TRUE exactly when its `@` stands in front of the `{`.      *)
(***************************************************************************)
\* parse_pattern is at its `}` with a leading bind, and `@` follows the `}`
SecondBindAhead ==
    /\ Running /\ Top.pc = "pat_close" /\ IsSome(Top.bind)
    /\ UpcomingKind(1) = "CurlyBClose" /\ UpcomingKind(2) = "At"
PatternArgs(res) ==
    {n.ty.arg : n \in {x \in {res.root} \cup Range(res.arena) :
                          x.ty.type = "Lambda" /\ x.ty.arg.kind = "Pattern"}}
BindsPlaced(res) ==
    \A arg \in PatternArgs(res) :
        IsSome(arg.bind) =>
            LET b == Unwrap(arg.bind) IN
            /\ b.before <=> b.at.span.start < arg.open.span.start
            /\ ~b.before <=> b.at.span.start >= arg.close.span.end

C11_Raised ==
    /\ SecondBindAhead
       => /\ ~ret'.ok
          /\ ret'.err = AlreadyBound
          /\ ret'.span = Some(Upcoming[2].meta.span)
          /\ consumed' = consumed \o SubSeq(Upcoming, 1, 2)
    /\ (ret.ok /\ ~ret'.ok /\ ret'.err.kind = "AlreadyBound") => SecondBindAhead
C11_Parsed ==
    (result.status = "running" /\ result'.status = "ok") => BindsPlaced(result')

C11_AlreadyBound == [][C11_Raised /\ C11_Parsed]_vars

\* x@{}@y: x
C11_Witness ==
    /\ input = Tokenize(<<Id("x"), T("At"), T("CurlyBOpen"), T("CurlyBClose"), T("At"),
                          Id("y"), T("Colon"), Id("x")>>)
    /\ result.status = "err"
    /\ result.err = AlreadyBound
    /\ result.span = Some(input[5].meta.span)
    /\ Len(consumed) = 5

(***************************************************************************)
(* C12  Bare lambda versus variable: in parse_expr, when parse_math has    *)
(* returned exactly a Var(meta, name) and the next token is `:`, the `:`   *)
(* is consumed, the body is parsed by parse_expr and the result is         *)
(* Lambda(Ident(meta, name), colon, body), so `a: b: a + b` nests to the   *)
(* right; a Var not followed by `:` is returned as it is, and after any    *)
(* other node a following `:` is not consumed.                             *)
(***************************************************************************)
Fn(name, body) == [lambda |-> name, body |-> body]
MathReturned == Running /\ Top.pc = "expr_math"

C12_Dispatch ==
    MathReturned =>
        IF ret.val.ty.type = "Var" /\ UpcomingKind(1) = "Colon"
        THEN /\ consumed' = Append(consumed, Upcoming[1])
             /\ arena' = arena
             /\ stack'[Len(stack')] = [pc |-> "parse_expr"]
             /\ stack'[Len(stack') - 1].pc = "expr_lambda"
             /\ stack'[Len(stack') - 1].meta = ret.val.ty.meta
             /\ stack'[Len(stack') - 1].name = ret.val.ty.name
             /\ stack'[Len(stack') - 1].colon = Upcoming[1].meta
        ELSE /\ ret' = ret
             /\ consumed' = consumed
             /\ arena' = arena
             /\ stack' = Rest
C12_Built ==
    (Running /\ Top.pc = "expr_lambda")
    => /\ arena' = Append(arena, ret.val)
       /\ ret'.ok
       /\ ret'.val.ty = [type |-> "Lambda",
                         arg |-> [kind |-> "Ident", meta |-> Top.meta, name |-> Top.name],
                         colon |-> Top.colon, body |-> NodeId(Len(arena))]
C12_Examples ==
    (result.status = "running" /\ result'.status # "running")
    => /\ input = Tokenize(<<Id("a"), T("Colon"), Id("b"), T("Colon"), Id("a"), T("Add"),
                             Id("b")>>)
          => /\ result'.status = "ok"
             /\ Shape(result'.arena, result'.root)
                  = Fn("a", Fn("b", Op(V("a"), "Add", V("b"))))
       /\ input = Tokenize(<<T("ParenOpen"), Id("a"), T("ParenClose"), T("Colon"), Id("b")>>)
          => /\ result'.status = "ok"
             /\ Shape(result'.arena, result'.root) = [parens |-> V("a")]
             /\ consumed' = SubSeq(input, 1, 3)
       /\ input = Tokenize(<<Id("f"), Id("a")>>)
          => /\ result'.status = "ok"
             /\ Shape(result'.arena, result'.root) = App(V("f"), V("a"))

C12_BareLambda == [][C12_Dispatch /\ C12_Built /\ C12_Examples]_vars

C12_Witness ==
    /\ Succeeded
    /\ input = Tokenize(<<Id("a"), T("Colon"), Id("b"), T("Colon"), Id("a"), T("Add"), Id("b")>>)
    /\ RootShape = Fn("a", Fn("b", Op(V("a"), "Add", V("b"))))

(***************************************************************************)
(* C13  Attribute chaining: `a.b.c` folds to the left as                   *)
(* IndexSet(IndexSet(a, b), c); `or` binds to the last attribute only:     *)
(* `a.b.c or 1` is OrDefault(set = IndexSet(a, b), attr = c, default = 1); *)
(* the default is a single atom, so in `a.b.c or 1 + 1` the `+ 1` applies  *)
(* to the whole OrDefault.                                                 *)
(***************************************************************************)
Index(set, attr) == [set |-> set, attr |-> attr]
OrElse(set, attr, default) == [set |-> set, attr |-> attr, default |-> default]
\* what next_attr returns, and what parse_val never returns
AttrTypes == {"Var", "Value", "Dynamic", "Interpol"}
ExprOnlyTypes == {"Operation", "Apply", "Unary", "Let", "LetIn", "With", "IfElse", "Assert"}
ABC == <<Id("a"), T("Dot"), Id("b"), T("Dot"), Id("c")>>

C13_AttrChain ==
    Finished =>
    /\ Succeeded => \A n \in ResultNodes :
          n.ty.type \in {"IndexSet", "OrDefault"}
          => Get(result.arena, n.ty.attr).ty.type \in AttrTypes
    /\ Succeeded => \A n \in ResultNodes :
          n.ty.type = "OrDefault"
          => Get(result.arena, n.ty.default).ty.type \notin ExprOnlyTypes
    /\ input = Tokenize(ABC)
       => Succeeded /\ RootShape = Index(Index(V("a"), V("b")), V("c"))
    /\ input = Tokenize(ABC \o <<Id(OR), Val(1)>>)
       => Succeeded /\ RootShape = OrElse(Index(V("a"), V("b")), V("c"), N(1))
    /\ input = Tokenize(ABC \o <<Id(OR), Val(1), T("Add"), Val(1)>>)
       => Succeeded /\ RootShape = Op(OrElse(Index(V("a"), V("b")), V("c"), N(1)), "Add", N(1))

C13_Witness ==
    /\ Succeeded
    /\ input = Tokenize(ABC \o <<Id(OR), Val(1), T("Add"), Val(1)>>)
    /\ RootShape = Op(OrElse(Index(V("a"), V("b")), V("c"), N(1)), "Add", N(1))

(***************************************************************************)
(* C14  Import is an atom: `import` takes exactly one following atom       *)
(* (parse_val) as its operand, so `import p {}` is                         *)
(* Apply(Import(p), EmptySet) and never Import(Apply(p, EmptySet)).        *)
(***************************************************************************)
ImportP == <<T("Import"), Val(9), T("CurlyBOpen"), T("CurlyBClose")>>
EmptySet(node) == node.ty.type = "Set" /\ node.ty.recursive = None /\ node.ty.values = <<>>

C14_ImportAtom ==
    Finished =>
    /\ Succeeded => \A n \in ResultNodes :
          n.ty.type = "Import"
          => Get(result.arena, n.ty.value).ty.type \notin ExprOnlyTypes
    /\ input = Tokenize(ImportP)
       => /\ Succeeded
          /\ RootShape = App([import |-> N(9)], [type |-> "Set"])
          /\ EmptySet(Get(result.arena, result.root.ty.arg))

C14_Witness ==
    /\ Succeeded
    /\ input = Tokenize(ImportP)
    /\ result.root.ty.type = "Apply"
    /\ Get(result.arena, result.root.ty.f).ty.type = "Import"

(***************************************************************************)
(* C15  List elements are atoms: between `[` and `]` each element is       *)
(* parsed with parse_val, so a list written with k juxtaposed atoms has    *)
(* exactly k elements in source order, none of them an Apply of two        *)
(* neighbours; `[ a b ]` is a List of the variables a and b.               *)
(***************************************************************************)
ListOf(j) == <<T("SquareBOpen")>> \o j \o <<T("SquareBClose")>>

C15_ListAtoms ==
    Finished =>
    /\ Succeeded => \A n \in ResultNodes :
          n.ty.type = "List"
          => \A i \in DOMAIN n.ty.values :
                Get(result.arena, n.ty.values[i]).ty.type \notin ExprOnlyTypes
    /\ \A j \in Juxta :
          input = Tokenize(ListOf(j))
          => Succeeded /\ RootShape = [list |-> [i \in 1..Len(j) |-> AtomShape(j[i])]]
    /\ input = Tokenize(ListOf(<<Id("a"), Id("b")>>))
       => Succeeded /\ RootShape = [list |-> <<V("a"), V("b")>>]

C15_Witness ==
    /\ Succeeded
    /\ input = Tokenize(ListOf(<<Id("a"), Id("b")>>))
    /\ Len(result.root.ty.values) = 2
    /\ RootShape = [list |-> <<V("a"), V("b")>>]

(***************************************************************************)
(* C16  Inherit entries: in a set body, `inherit` followed by zero or more *)
(* identifiers and `;` yields Inherit(None, [those identifiers in order]); *)
(* `inherit ( expr ) ids ;` yields Inherit(Some(Parens(expr)), [ids]);     *)
(* `inherit a b;` is Inherit(None, [a, b]) and `inherit (s) a;` is         *)
(* Inherit(Some(s), [a]).  Entries appear in the set in source order.      *)
(***************************************************************************)
\* the entries of the sets and lets of a parsed tree
EntryLists ==
    {n.ty.values : n \in {x \in ResultNodes : x.ty.type \in {"Set", "Let"}}}
    \cup {n.ty.vars : n \in {x \in ResultNodes : x.ty.type = "LetIn"}}
IsIdentToken(meta, name) ==
    \E i \in DOMAIN consumed :
        consumed[i] = [meta |-> meta, tok |-> [kind |-> "Ident", name |-> name]]
\* the identifiers of an inherit are the tokens from `after` up to the `;`
InheritInOrder(e) ==
    LET after == IF IsSome(e.from) THEN Unwrap(e.from).close.span.end ELSE e.meta.span.end
    IN /\ IsSome(e.from) => Unwrap(e.from).open.span.start = e.meta.span.end
       /\ \A i \in DOMAIN e.vars :
             /\ e.vars[i].meta.span.start = after + (i - 1)
             /\ IsIdentToken(e.vars[i].meta, e.vars[i].name)
       /\ e.semi.span.start = after + Len(e.vars)
InheritNames(e) == [i \in DOMAIN e.vars |-> e.vars[i].name]
InheritProgram ==
    <<T("CurlyBOpen"), T("Inherit"), Id("a"), Id("b"), T("Semicolon"),
      T("Inherit"), T("ParenOpen"), Id("s"), T("ParenClose"), Id("a"), T("Semicolon"),
      T("Inherit"), T("Semicolon"), T("CurlyBClose")>>

C16_Inherit ==
    Finished =>
    /\ Succeeded => \A es \in EntryLists :
          /\ \A i \in DOMAIN es : es[i].kind = "Inherit" => InheritInOrder(es[i])
          /\ \A i, j \in DOMAIN es : i < j => es[i].semi.span.start < es[j].semi.span.start
    /\ input = Tokenize(InheritProgram)
       => Succeeded /\
          LET es == result.root.ty.values IN
          /\ result.root.ty.type = "Set" /\ Len(es) = 3
          /\ \A i \in 1..3 : es[i].kind = "Inherit"
          /\ es[1].from = None /\ InheritNames(es[1]) = <<"a", "b">>
          /\ IsSome(es[2].from)
          /\ Shape(result.arena, Get(result.arena, Unwrap(es[2].from).inner)) = V("s")
          /\ InheritNames(es[2]) = <<"a">>
          /\ es[3].from = None /\ InheritNames(es[3]) = <<>>

C16_Witness ==
    /\ Succeeded
    /\ input = Tokenize(InheritProgram)
    /\ Len(result.root.ty.values) = 3
    /\ InheritNames(result.root.ty.values[1]) = <<"a", "b">>

(***************************************************************************)
(* C17  `let` dispatch: when `let` is immediately followed by `{`, the     *)
(* result is the legacy Let whose entries are the set body up to the       *)
(* closing `}`, and no body expression is parsed after it; otherwise the   *)
(* entries are parsed up to `in` and exactly one expression is parsed as   *)
(* the body, giving LetIn(entries, body); `let a = 42; in a` is            *)
(* LetIn([Assign([Var a], 42)], Var a).                                    *)
(***************************************************************************)
\* a `{` was handed out right behind the Meta
CurlyFollows(meta) ==
    \E i \in DOMAIN consumed :
        /\ consumed[i].tok.kind = "CurlyBOpen"
        /\ consumed[i].meta.span.start = meta.span.end
LegacyLet(n) ==
    /\ CurlyFollows(n.ty.let_)
    /\ n.ty.open.span.start = n.ty.let_.span.end
    /\ n.span = Until(n.ty.let_.span, n.ty.close.span)
    /\ \A i \in DOMAIN n.ty.values : n.ty.values[i].semi.span.end <= n.ty.close.span.start
LetInBody(n) ==
    /\ ~CurlyFollows(n.ty.let_)
    /\ \A i \in DOMAIN n.ty.vars : n.ty.vars[i].semi.span.end <= n.ty.in_.span.start
    /\ Get(result.arena, n.ty.body).span.start = n.ty.in_.span.end
    /\ n.span = Until(n.ty.let_.span, Get(result.arena, n.ty.body).span)
LetInProgram ==
    <<T("Let"), Id("a"), T("Assign"), Val(42), T("Semicolon"), T("In"), Id("a")>>
LegacyProgram ==
    <<T("Let"), T("CurlyBOpen"), Id("a"), T("Assign"), Val(1), T("Semicolon"),
      T("CurlyBClose"), Id("b")>>
KeyShapes(e) == [i \in DOMAIN e.key |-> Shape(result.arena, Get(result.arena, e.key[i].id))]

C17_LetDispatch ==
    Finished =>
    /\ Succeeded => \A n \in ResultNodes :
          /\ n.ty.type = "Let" => LegacyLet(n)
          /\ n.ty.type = "LetIn" => LetInBody(n)
    /\ input = Tokenize(LetInProgram)
       => Succeeded /\
          LET ty == result.root.ty IN
          /\ ty.type = "LetIn" /\ Len(ty.vars) = 1
          /\ ty.vars[1].kind = "Assign"
          /\ KeyShapes(ty.vars[1]) = <<V("a")>>
          /\ Shape(result.arena, Get(result.arena, ty.vars[1].value)) = N(42)
          /\ Shape(result.arena, Get(result.arena, ty.body)) = V("a")
          /\ consumed = input
    /\ input = Tokenize(LegacyProgram)
       => Succeeded /\
          LET ty == result.root.ty IN
          /\ ty.type = "Let" /\ Len(ty.values) = 1
          /\ KeyShapes(ty.values[1]) = <<V("a")>>
          /\ consumed = SubSeq(input, 1, 7)

C17_Witness ==
    /\ Succeeded
    /\ input = Tokenize(LegacyProgram)
    /\ result.root.ty.type = "Let"
    /\ Len(consumed) = 7

(***************************************************************************)
(* C18  Nodes are inserted into the arena in post-order: for every         *)
(* successful parse the arena slots, read by increasing id, are the        *)
(* post-order traversal of the tree below the root (the nodes of an        *)
(* earlier subtree before the nodes of a later sibling subtree, each node  *)
(* after all of its descendants).                                          *)
(***************************************************************************)
RECURSIVE PostOrder(_, _)
\* the ids below a node: each child's subtree, then the child, in field order
PostOrder(a, node) ==
    Concat([i \in 1..Len(ChildIds(node.ty)) |->
               PostOrder(a, Get(a, ChildIds(node.ty)[i])) \o <<ChildIds(node.ty)[i]>>])

C18_PostOrder ==
    Succeeded =>
        PostOrder(result.arena, result.root) = [i \in 1..Len(result.arena) |-> NodeId(i - 1)]

(***************************************************************************)
(* C18, as the parser does it: every node is inserted after all of its     *)
(* descendants, but an operand is inserted only when the node above it is  *)
(* built, so a left operand comes after the nodes inside the right         *)
(* operand: for `1 + 2 * 3` the arena is [2, 3, 1, 2 * 3].                 *)
(***************************************************************************)
RECURSIVE Below(_, _)
Below(a, node) ==
    Range(ChildIds(node.ty))
    \cup UNION {Below(a, Get(a, id)) : id \in Range(ChildIds(node.ty))}
OnePlusTwoTimesThree == <<Val(1), T("Add"), Val(2), T("Mul"), Val(3)>>

C18_DescendantsFirst ==
    Finished =>
    /\ Succeeded => \A i \in DOMAIN result.arena :
          \A id \in Below(result.arena, result.arena[i]) : id < NodeId(i - 1)
    /\ input = Tokenize(OnePlusTwoTimesThree)
       => /\ Succeeded
          /\ [i \in DOMAIN result.arena |-> Shape(result.arena, result.arena[i])]
               = <<N(2), N(3), N(1), Op(N(2), "Mul", N(3))>>
          /\ PostOrder(result.arena, result.root) = <<2, 0, 1, 3>>

C18_Witness ==
    /\ Succeeded
    /\ input = Tokenize(OnePlusTwoTimesThree)
    /\ Len(result.arena) = 4
    /\ Shape(result.arena, result.arena[3]) = N(1)

(***************************************************************************)
(* C19  Node id order in an Operation: for every Operation(lhs, op, rhs)   *)
(* built by the operator folding rule, the id of lhs is allocated first    *)
(* and the id of rhs immediately after it (rhs = lhs + 1), and the         *)
(* Operation, when it is inserted later, gets an id greater than both; for *)
(* `1 + 2 * 3` the root is Operation(NodeId(2), Add, NodeId(3)) and the    *)
(* Mul node is Operation(NodeId(0), Mul, NodeId(1)).                       *)
(***************************************************************************)
IdsInOrder(n) ==
    /\ n.ty.rhs = n.ty.lhs + 1
    /\ Get(result.arena, n.ty.lhs).span.start = n.span.start
    /\ Get(result.arena, n.ty.rhs).span.end = n.span.end
    /\ Get(result.arena, n.ty.lhs).span.end <= n.ty.meta.span.start
    /\ n.ty.meta.span.end <= Get(result.arena, n.ty.rhs).span.start

C19_OperationIds ==
    Finished =>
    /\ Succeeded => \A n \in ResultNodes : n.ty.type = "Operation" => IdsInOrder(n)
    /\ Succeeded => \A i \in DOMAIN result.arena :
          result.arena[i].ty.type = "Operation" => result.arena[i].ty.rhs < NodeId(i - 1)
    /\ input = Tokenize(OnePlusTwoTimesThree)
       => /\ Succeeded
          /\ result.root.ty.type = "Operation" /\ result.root.ty.op = "Add"
          /\ result.root.ty.lhs = NodeId(2) /\ result.root.ty.rhs = NodeId(3)
          /\ Get(result.arena, NodeId(3)).ty.type = "Operation"
          /\ Get(result.arena, NodeId(3)).ty.op = "Mul"
          /\ Get(result.arena, NodeId(3)).ty.lhs = NodeId(0)
          /\ Get(result.arena, NodeId(3)).ty.rhs = NodeId(1)

C19_Witness ==
    /\ Succeeded
    /\ input = Tokenize(OnePlusTwoTimesThree)
    /\ result.root.ty.lhs = NodeId(2) /\ result.root.ty.rhs = NodeId(3)
    /\ Get(result.arena, NodeId(3)).ty.lhs = NodeId(0)

(***************************************************************************)
(* C20  Pattern entry structure: in every Pattern produced by              *)
(* parse_pattern every PatEntry except possibly the last has its comma (an *)
(* entry without a comma ends the entry loop); an ellipsis `...` comes     *)
(* after all entries and is directly followed by `}`; and the token after  *)
(* the entry loop is `}`, or the parse fails with Expected(CurlyBClose, ..).*)
(***************************************************************************)
WellFormedPattern(arg) ==
    /\ \A i \in DOMAIN arg.args : i < Len(arg.args) => IsSome(arg.args[i].comma)
    /\ \A i \in DOMAIN arg.args :
          /\ arg.open.span.end <= arg.args[i].ident.span.start
          /\ arg.args[i].ident.span.end <= arg.close.span.start
    /\ IsSome(arg.ellipsis)
       => /\ Unwrap(arg.ellipsis).span.end = arg.close.span.start
          /\ \A i \in DOMAIN arg.args :
                /\ arg.args[i].ident.span.end <= Unwrap(arg.ellipsis).span.start
                /\ IsSome(arg.args[i].comma)
                /\ Unwrap(arg.args[i].comma).span.end <= Unwrap(arg.ellipsis).span.start
\* the entry loop of parse_pattern has ended
LoopEnded == Running /\ Top.pc = "pat_close"

C20_Close ==
    (LoopEnded /\ UpcomingKind(1) # "CurlyBClose")
    => /\ ~ret'.ok
       /\ ret'.err = Expected("CurlyBClose",
                              IF Upcoming = <<>> THEN None ELSE Some(Upcoming[1].tok))
C20_Produced ==
    (result.status = "running" /\ result'.status = "ok")
    => \A arg \in PatternArgs(result') : WellFormedPattern(arg)
C20_Loop ==
    (Running /\ Top.pc = "pat_comma" /\ UpcomingKind(1) # "Comma")
    => ret'.ok /\ stack'[Len(stack')].pc = "pat_close"

C20_PatternEntries == [][C20_Close /\ C20_Produced /\ C20_Loop]_vars

\* {a ? 1, b, ...}: a
C20_Witness ==
    /\ Succeeded
    /\ input = Tokenize(<<T("CurlyBOpen"), Id("a"), T("Question"), Val(1), T("Comma"),
                          Id("b"), T("Comma"), T("Ellipsis"), T("CurlyBClose"),
                          T("Colon"), Id("a")>>)
    /\ Len(result.root.ty.arg.args) = 2
    /\ IsSome(result.root.ty.arg.ellipsis)
    /\ WellFormedPattern(result.root.ty.arg)

(***************************************************************************)
(* C21  Lookahead buffer: the pushback buffer of every parser holds at     *)
(* most two tokens at every point of every parse; peek does not consume (a *)
(* second peek, or a next after the peek, gives the token the peek gave);  *)
(* after the lookahead behind `{` has pushed the temporary back, the next  *)
(* two next() calls give the temporary and then the peeked token; and the  *)
(* tokens are handed to the grammar in stream order, each exactly once.    *)
(***************************************************************************)
\* how many tokens of its sequence parser p has handed out for good
Delivered(p) == p.pos - 1 - Len(p.buffer)
\* the buffer holds the tokens read ahead, the earliest on top
BufferInOrder(p) ==
    /\ Len(p.buffer) <= 2
    /\ Delivered(p) >= 0
    /\ \A j \in DOMAIN p.buffer : p.buffer[j] = p.toks[p.pos - j]
\* peek changes neither what the next peek nor what the next next() gives
PeekKeeps(m) ==
    /\ PeekItem(peek_meta(m)) = PeekItem(m)
    /\ peek_meta(m).c = m.c
    /\ IsSome(PeekItem(m)) <=> HasNext(m)
    /\ HasNext(m) => /\ HasNext(peek_meta(m))
                     /\ NextItem(peek_meta(m)) = Unwrap(PeekItem(m))
                     /\ next(peek_meta(m)).c = Append(m.c, Unwrap(PeekItem(m)))
\* parse_val has just done its lookahead behind `{` and called parse_pattern
\* or parse_set
LookedAhead ==
    /\ Running /\ Len(stack) >= 2
    /\ \/ Top.pc = "parse_pattern" /\ Top = parse_pattern_frame(Top.open, None)
       \/ /\ Top = parse_set_frame("CurlyBClose")
          /\ stack[Len(stack) - 1].pc = "val_set"
          /\ stack[Len(stack) - 1].recursive = None
\* the tokens of the top-level sequence among those handed out
TopLevel(taken) == SelectSeq(taken, LAMBDA item : item \in Range(input))

C21_LookaheadBuffer ==
    /\ \A i \in DOMAIN parsers : BufferInOrder(parsers[i])
    /\ parsers # <<>>
       => /\ PeekKeeps(M0)
          /\ TopLevel(consumed) = SubSeq(input, 1, Delivered(parsers[1]))
    /\ \A i, j \in DOMAIN consumed :
          i < j => consumed[i].meta.span.start < consumed[j].meta.span.start
    /\ LookedAhead
       => LET p == Cur(M0)
              d == Delivered(p)
          IN /\ p.toks[d].tok.kind = "CurlyBOpen"
             /\ consumed[Len(consumed)] = p.toks[d]
             /\ Len(p.buffer) = IF d + 2 <= Len(p.toks) THEN 2 ELSE 1
             /\ NextItem(M0) = p.toks[d + 1]
             /\ d + 2 <= Len(p.toks) => NextItem(next(M0)) = p.toks[d + 2]

\* {a, b ? d}: a, the lookahead done: `a` on top of `,` in the buffer
C21_Witness ==
    /\ LookedAhead
    /\ input = Tokenize(<<T("CurlyBOpen"), Id("a"), T("Comma"), Id("b"), T("Question"),
                          Id("d"), T("CurlyBClose"), T("Colon"), Id("a")>>)
    /\ Cur(M0).buffer = <<input[3], input[2]>>
    /\ consumed = <<input[1]>>

(***************************************************************************)
(* C22  Errors abort the parse: once a method has returned an error (at    *)
(* top level or inside the nested parse of an interpolation or a dynamic   *)
(* attribute) every step hands that same (Option<Span>, ParseError) pair   *)
(* one caller up, takes no token, inserts no node and gives no AST, and    *)
(* what parse returns is that pair; nothing resumes parsing.               *)
(***************************************************************************)
\* a method has returned an error that parse has not yet returned
Failing == result.status = "running" /\ ~ret.ok

C22_Unwinds ==
    Failing
    => /\ ret' = ret
       /\ consumed' = consumed
       /\ arena' = arena
       /\ Len(stack') < Len(stack)
       /\ result'.status # "ok"
       /\ result'.status = "err"
          => result'.span = ret.span /\ result'.err = ret.err
\* parse fails only with an error a method has returned
C22_Returned ==
    (result.status = "running" /\ result'.status = "err") => Failing
\* "x${+}" fails inside the interpolation, with the error of the nested parse
C22_Nested ==
    (input = Tokenize(<<Interp(<<Lit("x"), Toks(<<T("Add")>>)>>)>>)
     /\ result'.status # "running")
    => /\ result'.status = "err"
       /\ result'.err = Unexpected(T("Add"))
       /\ result'.span = Some(input[1].tok.parts[2].tokens[1].meta.span)

C22_ErrorsAbort == [][C22_Unwinds /\ C22_Returned /\ C22_Nested]_vars

\* an error of a nested parser on its way up, tokens taken and nodes inserted
C22_Witness ==
    /\ Failing
    /\ Len(parsers) = 2
    /\ Len(stack) >= 3
    /\ arena # <<>>
    /\ consumed # <<>>

(***************************************************************************)
(* C23  Set body terminator: parse_set(until) returns Ok only from the     *)
(* head of its loop, with `until` (`}` or `in`) the next token, which it   *)
(* consumes and whose Meta it returns; when the stream ends before the     *)
(* terminator, parse_set fails with span None.  The original statement     *)
(* gives that error as UnexpectedEOF in every case; the amended one gives  *)
(* UnexpectedEOF where an entry or an expression would start and           *)
(* Expected(token, None) where `=`, `;` or `)` is expected.                *)
(***************************************************************************)
SetPcs == {"parse_set", "set_inherit_from", "set_inherit_vars", "set_assign", "set_value"}
\* the frames of the calls made on the running parser
BranchAt == {i \in DOMAIN stack : stack[i].pc = "parse_branch"}
OwnFrames == {stack[i] : i \in {j \in DOMAIN stack : \A b \in BranchAt : b < j}}
\* a call of parse_set is active on the running parser, whose stream has ended
SetBodyCutOff ==
    /\ Running
    /\ \E frame \in OwnFrames : frame.pc \in SetPcs
    /\ Upcoming = <<>>
\* the token parse_set expects next at one of its places
SetExpects(pc) ==
    CASE pc = "set_inherit_from" -> "ParenClose"
      [] pc = "set_assign" -> "Assign"
      [] OTHER -> "Semicolon"

C23_Returns ==
    (Running /\ Top.pc \in SetPcs /\ ret'.ok /\ Len(stack') < Len(stack))
    => /\ Top.pc = "parse_set"
       /\ Top.until \in {"CurlyBClose", "In"}
       /\ Upcoming # <<>>
       /\ Upcoming[1].tok.kind = Top.until
       /\ ret'.val.end = Upcoming[1].meta
       /\ consumed' = Append(consumed, Upcoming[1])
C23_Ends ==
    SetBodyCutOff
    => /\ (~ret'.ok) => ret'.span = None /\ AboutEnd(ret'.err)
       /\ Top.pc = "parse_set"
          => ret'.ok /\ stack'[Len(stack')].pc = "parse_attr" /\ consumed' = consumed
       /\ Top.pc = "next_attr" => ret' = Err(None, UnexpectedEOF)
       /\ Top.pc \in SetPcs \ {"parse_set"}
          => ret' = Err(None, Expected(SetExpects(Top.pc), None))
\* the original statement: the stream ending in a set body is always UnexpectedEOF
C23_EndsUnexpectedEOF ==
    (SetBodyCutOff /\ ~ret'.ok) => ret' = Err(None, UnexpectedEOF)

C23_Terminator == [][C23_Returns /\ C23_EndsUnexpectedEOF]_vars

C23_TerminatorOrEnd == [][C23_Returns /\ C23_Ends]_vars

\* { inherit a: the stream ends where the `;` of the inherit is expected
C23_Witness ==
    /\ input = Tokenize(<<T("CurlyBOpen"), T("Inherit"), Id("a")>>)
    /\ result.status = "err"
    /\ result.span = None
    /\ result.err = Expected("Semicolon", None)

(***************************************************************************)
(* C24  Totality: on every token sequence of the pool (whole programs,     *)
(* every prefix of them, the empty sequence, sequences with a wrong token) *)
(* the parse ends and gives Ok(tree) or Err(error); every loop (set body,  *)
(* inherit names, list, pattern, attribute path, postfix access,           *)
(* application, operator folding, interpolation parts) takes at least one  *)
(* token per iteration or ends; and next() is never unwrapped at the end   *)
(* of the stream: no parser reads past the end of its tokens.              *)
(***************************************************************************)
\* the parser keeps running until parse has returned
LiveSpec == Spec /\ WF_vars(Next)

\* the places where a loop decides between one more iteration and its end
LoopHeads == {"parse_set", "set_inherit_vars", "val_list", "parse_pattern", "pat_comma",
              "attr_peek", "val_postfix", "fn_peek", "math_peek"}
\* the methods that begin with self.next()?
TakesFirst == {"parse_val", "next_attr"}
NewTop == stack'[Len(stack')]

C24_Loops ==
    (Running /\ Top.pc \in LoopHeads)
    => \/ Len(consumed') > Len(consumed)
       \/ ~ret'.ok
       \/ Len(stack') < Len(stack)
       \/ Len(stack') = Len(stack) /\ Top.pc \in {"parse_pattern", "pat_comma"}
          /\ NewTop.pc = "pat_close"
       \/ Len(stack') = Len(stack) + 1 /\ NewTop.pc \in TakesFirst \cup {"parse_attr"}
C24_Takes ==
    /\ (Running /\ Top.pc \in TakesFirst)
       => IF Upcoming = <<>> THEN ret' = Err(None, UnexpectedEOF)
          ELSE Len(consumed') > Len(consumed)
    /\ (Running /\ Top.pc = "parse_attr")
       => Len(stack') = Len(stack) + 1 /\ NewTop.pc = "next_attr"
    /\ (Running /\ Top.pc = "parse_interpol")
       => \/ Len(stack') < Len(stack)
          \/ Len(stack'[Len(stack)].values) < Len(Top.values)
    /\ Len(consumed') >= Len(consumed)
C24_InBounds ==
    \A i \in DOMAIN parsers :
        /\ parsers[i].pos <= Len(parsers[i].toks) + 1
        /\ Delivered(parsers[i]) = Len(parsers[i].toks) => parsers[i].buffer = <<>>
C24_Ends == result.status \in {"ok", "err"}

C24_Totality == []C24_InBounds /\ [][C24_Loops /\ C24_Takes]_vars /\ <>C24_Ends

\* [ 1 cut off behind its element: the list loop ends at the end of the stream
C24_Witness ==
    /\ input = Tokenize(<<T("SquareBOpen"), Val(1)>>)
    /\ result.status = "err"
    /\ result.err = Expected("SquareBClose", None)
    /\ Len(arena) = 1

(***************************************************************************)
(* C25  The list `[ f x ]`: it parses to a List whose elements are the     *)
(* atoms f and x, each stored in the arena, and not to a List holding the  *)
(* one application `f x`.  The original statement counts three elements;   *)
(* the list has two.                                                       *)
(***************************************************************************)
ListFX == <<T("SquareBOpen"), Id("f"), Id("x"), T("SquareBClose")>>
\* the parse of `[ f x ]` has given a List
ParsedListFX ==
    /\ input = Tokenize(ListFX)
    /\ Succeeded
    /\ result.root.ty.type = "List"

\* the original statement: three elements
C25_ThreeElements ==
    (Finished /\ input = Tokenize(ListFX))
    => ParsedListFX /\ Len(result.root.ty.values) = 3

C25_TwoElements ==
    (Finished /\ input = Tokenize(ListFX))
    => /\ ParsedListFX
       /\ result.root.ty.values = <<NodeId(0), NodeId(1)>>
       /\ result.arena = <<Var(input[2].meta, "f"), Var(input[3].meta, "x")>>
       /\ \A node \in ResultNodes : node.ty.type # "Apply"
       /\ result.root.ty.open = input[1].meta /\ result.root.ty.close = input[4].meta

C25_Witness ==
    /\ ParsedListFX
    /\ Len(result.root.ty.values) = 2
    /\ Shape(result.arena, Get(result.arena, result.root.ty.values[1])) = V("f")
    /\ Shape(result.arena, Get(result.arena, result.root.ty.values[2])) = V("x")

(***************************************************************************)
(* C26  Children precede parents in the arena: at every point of a parse   *)
(* every NodeId stored in a field of the node in slot i names a slot       *)
(* before i, so the arena is acyclic and in topological order; and the     *)
(* arena only grows: a step leaves every slot already written as it is.    *)
(***************************************************************************)
\* every NodeId stored in slot i (ids count from 0) is below i
ChildrenFirst(a) ==
    \A i \in DOMAIN a :
        \A id \in Range(ChildIds(a[i].ty)) : NodeId(0) <= id /\ id < NodeId(i - 1)
\* arena b has every slot of arena a, unchanged
Extends(a, b) == Len(a) <= Len(b) /\ SubSeq(b, 1, Len(a)) = a

C26_ChildrenFirst == []ChildrenFirst(arena) /\ [][Extends(arena, arena')]_vars

\* 1 + 2 * 3 while the parse is running: 2 * 3 has just been stored behind 2, 3 and 1
C26_Witness ==
    /\ result.status = "running"
    /\ input = Tokenize(OnePlusTwoTimesThree)
    /\ Len(arena) = 4
    /\ arena[4].ty.type = "Operation"
    /\ ChildIds(arena[4].ty) = <<NodeId(0), NodeId(1)>>

(***************************************************************************)
(* C27  Tree shape of a successful result: the root is returned beside the *)
(* arena and is not one of its slots; every arena slot is named by exactly *)
(* one NodeId field among those of the root and of the arena nodes (no     *)
(* slot is an orphan, none is shared); so the arena has one slot less than *)
(* the tree has nodes; and `1 + 2 * 3` gives exactly four slots.           *)
(***************************************************************************)
\* how many fields of the root and of the arena nodes hold the id
TimesNamed(id) == Cardinality({i \in DOMAIN StoredIds : StoredIds[i] = id})
\* the number of nodes of the tree under a node, the node counted
RECURSIVE Sum(_)
Sum(q) == IF q = <<>> THEN 0 ELSE Head(q) + Sum(Tail(q))
RECURSIVE TreeSize(_, _)
TreeSize(a, node) ==
    1 + Sum([i \in 1..Len(ChildIds(node.ty)) |-> TreeSize(a, Get(a, ChildIds(node.ty)[i]))])

C27_TreeShape ==
    Finished =>
    /\ Succeeded
       => /\ result.root \notin Range(result.arena)
          /\ \A i \in DOMAIN result.arena : TimesNamed(NodeId(i - 1)) = 1
          /\ Len(StoredIds) = Len(result.arena)
          /\ TreeSize(result.arena, result.root) = Len(result.arena) + 1
    /\ input = Tokenize(OnePlusTwoTimesThree)
       => /\ Succeeded
          /\ Len(result.arena) = 4
          /\ TreeSize(result.arena, result.root) = 5
          /\ result.root.ty.type = "Operation"

\* "Hello, ${ { w = 1; }.w }!": a tree of six nodes, five of them in the arena
C27_Witness ==
    /\ Succeeded
    /\ input = Tokenize(<<Interp(<<Lit("Hello, "),
                                   Toks(<<T("CurlyBOpen"), Id("w"), T("Assign"), Val(1),
                                          T("Semicolon"), T("CurlyBClose"), T("Dot"),
                                          Id("w")>>),
                                   Lit("!")>>)>>)
    /\ TreeSize(result.arena, result.root) = Len(result.arena) + 1
    /\ Len(result.arena) = 5
    /\ \A i \in DOMAIN result.arena : TimesNamed(NodeId(i - 1)) = 1
====
